---- MODULE Spec2Model ----
(***************************************************************************)
(* State-machine model of the PageTurn.js DOM facade (class DOMElement):   *)
(* node normalisation, the event subsystem (handler buckets and lazily     *)
(* installed native listener bridges) and the per-node data store with its *)
(* cached live view.                                                       *)
(***************************************************************************)
EXTENDS Integers, Sequences, FiniteSets, TLC

\* ------------------------------------------------------------------ bounds
\* Longest node array handed to the constructor.
MaxLen == 2
\* Largest generation index of the Set objects / listeners created for one
\* (node, event) pair that are alive at the same time.
MaxGen == 1
\* Largest number of live views the model lets one node hand out.
MaxViews == 2

\* ------------------------------------------------------------------ universe
Elements == {"e1", "e2"}
Nodes == Elements \cup {"win"}
Slots == {"h1", "h2"}
EventNames == {"click", "turned"}
Handlers == {"A", "B"}
NoHandler == "undefined"

EVENT_STORE_KEY == "__pageturn.events__"
DATA_PROXY_KEY == "Symbol(pageturn.dataProxy)"

\* Values of the language, tagged by kind.
Undefined == [t |-> "undefined"]
Val(v) == [t |-> "val", v |-> v]
HandleRef(slot) == [t |-> "handle", slot |-> slot]
NewStore == [t |-> "store", buckets |-> << >>, native |-> << >>]

isStore(c) == c.t = "store"
\* JavaScript truthiness: undefined, null, the empty string, 0 and false are
\* falsy, every object (an empty array too) is truthy.
Truthy(c) ==
  \/ c.t \in {"store", "proxy", "handle", "array", "object", "event"}
  \/ (c.t = "val" /\ c.v \notin {"null", ""})
  \/ (c.t = "number" /\ c.n # 0)
  \/ (c.t = "boolean" /\ c.b)
\* x ?? undefined
Nullish(c) == c.t = "undefined" \/ (c.t = "val" /\ c.v = "null")

isElementLike(node) == node \in Elements
\* 'addEventListener' in node: true of Element, Document and Window alike.
HasAddEventListener(node) == node \in Nodes

\* Map / Set primitives (a Map is a function on its key set, a Set is the
\* sequence of its members in insertion order).
MapHas(m, key) == key \in DOMAIN m
MapGet(m, key) == IF key \in DOMAIN m THEN m[key] ELSE Undefined
MapSet(m, key, val) == [x \in DOMAIN m \cup {key} |-> IF x = key THEN val ELSE m[x]]
MapDelete(m, key) == [x \in DOMAIN m \ {key} |-> m[x]]
Range(s) == {s[i] : i \in DOMAIN s}
\* Mutant of SetAdd: the bucket kept as a list, every registration pushed.
SetAdd_Push(s, x) == Append(s, x)
\* Mutant of SetAdd: a new member is put in front.
SetAdd_Front(s, x) == IF x \in Range(s) THEN s ELSE <<x>> \o s
SetAdd(s, x) == IF x \in Range(s) THEN s ELSE Append(s, x)
SetDelete(s, x) == SelectSeq(s, LAMBDA y : y # x)

\* ------------------------------------------------------------------ document
\* The nodes that hold children: the elements and the document body.
Containers == Elements \cup {"body"}
\* A child node: an element of the model, a deep clone of one (a new node
\* the facade keeps no state for), or a node parsed from markup text.
El(e) == [t |-> "el", id |-> e]
Clone(e) == [t |-> "clone", of |-> e]
Html == [t |-> "html"]

\* The TurnInstance wrappers made over the Handle in slot h1: one by
\* createTurn, one by useTurn.
Wrappers == {"w1", "w2"}

\* syncIndexes: the integer keys are deleted and set again from the node
\* list, self[index] = node.
syncIndexes(ns) == [i \in 0..(Len(ns) - 1) |-> ns[i + 1]]

\* No dispatch is in progress.
Idle == [active |-> FALSE]

\* ------------------------------------------------------------------ state
VARIABLES
  handles,       \* slot -> DOMElement.nodes of the Handle held in that slot
  aliases,       \* the pairs of slots whose Handles hold one and the same array
  evt,           \* the event value built by Event(type), undefined before
  dataStore,     \* WeakMap node -> Map key -> value
  bucketSets,    \* heap of the Set objects created by on(): id -> members
  domListeners,  \* node -> the native listeners installed on it, in order
  views,         \* node -> the live views data() has handed out for it
  children,      \* element or body -> its child nodes, in order
  attrs,         \* element -> getAttribute("title") (null when not set)
  display,       \* element -> inline style value of "display"
  classes,       \* element -> class tokens
  objects,       \* the plain records alive: identity -> its own keys and values
  listenerRegistry, \* wrapper -> event -> the handlers subscribed, each with its callback
  indexes,       \* slot -> the integer-indexed entries the Handle itself holds
  run,           \* the dispatch in progress: its node, the Set it walks, what is left of it
  last           \* the call made last: what it was and what came of it

vars == <<handles, aliases, evt, dataStore, bucketSets, domListeners, views, children, attrs,
          display, classes, objects, listenerRegistry, run, indexes, last>>

evVars == <<dataStore, bucketSets, domListeners>>
domVars == <<children, attrs, display, classes>>

nodes(slot) == handles[slot]
elements(slot) == SelectSeq(handles[slot], isElementLike)

\* The record of a call. op: the method; slot: the Handle it was called on; key, arg: its arguments;
\* ret: what it returned; invoked: the handler invocations it made, in order;
\* fault: it raised; changed: it changed some per-node state.
\* node: the node a data call addressed; rec: the record given to data(record).
Call(op, slot, key, arg, ret, invoked, fault, changed) ==
  [op |-> op, slot |-> slot, key |-> key, arg |-> arg, ret |-> ret,
   invoked |-> invoked, fault |-> fault, changed |-> changed,
   node |-> "-", rec |-> << >>]

\* ------------------------------------------------------------------ per-node stores
getNodeData(ds, node) == IF node \in DOMAIN ds THEN ds ELSE MapSet(ds, node, << >>)

getExistingNodeData(ds, node) == MapGet(ds, node)

\* data?.get(EVENT_STORE_KEY) ?? undefined
getEventStore(ds, node) ==
  LET data == getExistingNodeData(ds, node)
  IN IF data = Undefined THEN Undefined
     ELSE IF Nullish(MapGet(data, EVENT_STORE_KEY)) THEN Undefined
     ELSE MapGet(data, EVENT_STORE_KEY)

\* The data store after ensureEventStore(node); the store it returns is
\* then the value under EVENT_STORE_KEY.
ensureEventStore(ds, node) ==
  LET ds1 == getNodeData(ds, node)
      cell == MapGet(ds1[node], EVENT_STORE_KEY)
  IN IF Truthy(cell) THEN ds1
     ELSE [ds1 EXCEPT ![node] = MapSet(ds1[node], EVENT_STORE_KEY, NewStore)]

\* Identity of a Set created for (node, event): the lowest generation not alive.
FreshGen(sets, node, event) ==
  CHOOSE g \in 0..(MaxGen + 1) :
    /\ <<node, event, g>> \notin DOMAIN sets
    /\ \A g2 \in 0..(g - 1) : <<node, event, g2>> \in DOMAIN sets

\* The working state a call threads through its forEach.
World == [ds |-> dataStore, sets |-> bucketSets, dl |-> domListeners,
          invoked |-> << >>, fault |-> FALSE]

\* ------------------------------------------------------------------ on
onNode(w, node, event, handler) ==
  LET ds1 == ensureEventStore(w.ds, node)
      store == ds1[node][EVENT_STORE_KEY]
  IN IF ~isStore(store)
     THEN [w EXCEPT !.ds = ds1, !.fault = TRUE]   \* store.buckets is undefined
     ELSE IF MapHas(store.buckets, event)
     THEN LET id == store.buckets[event]
          IN [w EXCEPT !.ds = ds1,
                       !.sets = MapSet(w.sets, id, SetAdd(w.sets[id], handler))]
     ELSE LET id == <<node, event, FreshGen(w.sets, node, event)>>
              bridge == HasAddEventListener(node)
              store1 == [store EXCEPT
                           !.buckets = MapSet(store.buckets, event, id),
                           !.native = IF bridge THEN MapSet(store.native, event, id)
                                      ELSE store.native]
          IN [w EXCEPT
                !.ds = [ds1 EXCEPT ![node] = MapSet(ds1[node], EVENT_STORE_KEY, store1)],
                !.sets = MapSet(w.sets, id, <<handler>>),
                !.dl = IF bridge
                       THEN [w.dl EXCEPT ![node] = Append(w.dl[node], <<event, id>>)]
                       ELSE w.dl]

RECURSIVE onEach(_, _, _, _)
onEach(w, ns, event, handler) ==
  IF ns = << >> \/ w.fault THEN w
  ELSE onEach(onNode(w, Head(ns), event, handler), Tail(ns), event, handler)

\* ------------------------------------------------------------------ off
\* Mutant of dropEvent: the maps are cleared, the listener stays installed.
dropEvent_KeepListener(w, node, store, event) ==
  LET store1 == [store EXCEPT !.native = MapDelete(store.native, event),
                              !.buckets = MapDelete(store.buckets, event)]
  IN [w EXCEPT
        !.ds = [w.ds EXCEPT ![node] = MapSet(w.ds[node], EVENT_STORE_KEY, store1)]]

\* Mutant of dropEvent: the node's whole event store is thrown away with
\* the emptied name.
dropEvent_DropsStore(w, node, store, event) ==
  LET lid == MapGet(store.native, event)
      dl1 == IF MapHas(store.native, event)
             THEN [w.dl EXCEPT ![node] = SelectSeq(w.dl[node], LAMBDA l : l # <<event, lid>>)]
             ELSE w.dl
  IN [w EXCEPT !.ds = [w.ds EXCEPT ![node] = MapDelete(w.ds[node], EVENT_STORE_KEY)],
               !.dl = dl1]

\* removeEventListener + native.delete + buckets.delete for one event name.
dropEvent(w, node, store, event) ==
  LET lid == MapGet(store.native, event)
      dl1 == IF MapHas(store.native, event)
             THEN [w.dl EXCEPT ![node] = SelectSeq(w.dl[node], LAMBDA l : l # <<event, lid>>)]
             ELSE w.dl
      store1 == [store EXCEPT !.native = MapDelete(store.native, event),
                              !.buckets = MapDelete(store.buckets, event)]
      dropped == IF MapHas(store.buckets, event) THEN {store.buckets[event]} ELSE {}
      live == {l[2] : l \in UNION {Range(dl1[n]) : n \in Nodes}}
  IN [w EXCEPT
        !.ds = [w.ds EXCEPT ![node] = MapSet(w.ds[node], EVENT_STORE_KEY, store1)],
        !.dl = dl1,
        !.sets = [id \in DOMAIN w.sets \ (dropped \ live) |-> w.sets[id]]]

\* Mutant of offNode: off(name, h) clears the whole name.
offNode_ClearsName(w, node, event, handler) ==
  LET store == getEventStore(w.ds, node)
  IN IF ~Truthy(store) THEN w
     ELSE IF ~isStore(store) THEN [w EXCEPT !.fault = TRUE]
     ELSE dropEvent(w, node, store, event)

\* Mutant of offNode: off(name) without a handler removes nothing.
offNode_RequiresHandler(w, node, event, handler) ==
  LET store == getEventStore(w.ds, node)
  IN IF ~Truthy(store) THEN w
     ELSE IF ~isStore(store) THEN [w EXCEPT !.fault = TRUE]
     ELSE IF handler = NoHandler THEN w
     ELSE IF ~MapHas(store.buckets, event) THEN w
     ELSE LET id == store.buckets[event]
              w1 == [w EXCEPT !.sets = MapSet(w.sets, id, SetDelete(w.sets[id], handler))]
          IN IF Len(w1.sets[id]) = 0 THEN dropEvent(w1, node, store, event) ELSE w1

offNode(w, node, event, handler) ==
  LET store == getEventStore(w.ds, node)
  IN IF ~Truthy(store) THEN w
     ELSE IF ~isStore(store) THEN [w EXCEPT !.fault = TRUE]  \* store.native is undefined
     ELSE IF handler = NoHandler THEN dropEvent(w, node, store, event)
     ELSE IF ~MapHas(store.buckets, event) THEN w
     ELSE LET id == store.buckets[event]
              w1 == [w EXCEPT !.sets = MapSet(w.sets, id, SetDelete(w.sets[id], handler))]
          IN IF Len(w1.sets[id]) = 0 THEN dropEvent(w1, node, store, event) ELSE w1

RECURSIVE offEach(_, _, _, _)
offEach(w, ns, event, handler) ==
  IF ns = << >> \/ w.fault THEN w
  ELSE offEach(offNode(w, Head(ns), event, handler), Tail(ns), event, handler)

\* ------------------------------------------------------------------ trigger
\* bucket.forEach(handler => handler.call(node, synthetic, ...args))
deliver(node, bucket, kind) == [i \in DOMAIN bucket |-> <<node, bucket[i], kind>>]

\* Mutant of triggerNode: the store is fetched with ensureEventStore.
triggerNode_Ensures(w, node, eventName) ==
  LET ds1 == ensureEventStore(w.ds, node)
      cell == ds1[node][EVENT_STORE_KEY]
  IN IF ~isStore(cell) THEN [w EXCEPT !.ds = ds1, !.fault = TRUE]
     ELSE IF ~MapHas(cell.buckets, eventName) THEN [w EXCEPT !.ds = ds1]
     ELSE [w EXCEPT !.ds = ds1, !.invoked =
             w.invoked \o deliver(node, w.sets[cell.buckets[eventName]], "synthetic")]

\* A native occurrence of `event` on `node`: the DOM runs the listeners
\* installed for the name in installation order; each bridge walks the Set
\* it closed over.
RECURSIVE nativeListeners(_, _, _, _)
nativeListeners(ls, sets, node, event) ==
  IF ls = << >> THEN << >>
  ELSE (IF Head(ls)[1] = event THEN deliver(node, sets[Head(ls)[2]], "native") ELSE << >>)
       \o nativeListeners(Tail(ls), sets, node, event)

\* Mutant of triggerNode: the event is dispatched on the node as well, so it
\* runs the native bridge of the node.
triggerNode_Dispatches(w, node, eventName) ==
  LET cell == getEventStore(w.ds, node)
  IN IF cell = Undefined THEN w
     ELSE IF ~isStore(cell) THEN [w EXCEPT !.fault = TRUE]
     ELSE IF ~MapHas(cell.buckets, eventName) THEN w
     ELSE IF Len(w.sets[cell.buckets[eventName]]) = 0 THEN w
     ELSE [w EXCEPT !.invoked =
             w.invoked \o deliver(node, w.sets[cell.buckets[eventName]], "synthetic")
                      \o nativeListeners(w.dl[node], w.sets, node, eventName)]

triggerNode(w, node, eventName) ==
  LET cell == getEventStore(w.ds, node)
  IN IF cell = Undefined THEN w                   \* store?.buckets short-circuits
     ELSE IF ~isStore(cell) THEN [w EXCEPT !.fault = TRUE]
     ELSE IF ~MapHas(cell.buckets, eventName) THEN w
     ELSE IF Len(w.sets[cell.buckets[eventName]]) = 0 THEN w
     ELSE [w EXCEPT !.invoked =
             w.invoked \o deliver(node, w.sets[cell.buckets[eventName]], "synthetic")]

RECURSIVE triggerEach(_, _, _)
triggerEach(w, ns, eventName) ==
  IF ns = << >> \/ w.fault THEN w
  ELSE triggerEach(triggerNode(w, Head(ns), eventName), Tail(ns), eventName)

\* ------------------------------------------------------------------ construction
\* Arrays of nodes of length at most MaxLen.
NodeArrays(S) == UNION {[1..k -> S] : k \in 0..MaxLen}

\* normalizeNodes over the selector kinds of the model: null, a single
\* node, an array of nodes, an existing Handle, a query (its matches), and
\* the nodes array of an existing Handle, which comes back as it is.
normalizeNodes(selector) ==
  CASE selector.kind = "null" -> << >>
    [] selector.kind = "handle" -> nodes(selector.slot)
    [] selector.kind = "node" -> <<selector.node>>
    [] selector.kind = "array" -> selector.nodes
    [] selector.kind = "nodesOf" -> nodes(selector.slot)
    [] selector.kind = "query" -> selector.matches

Selectors(S) ==
  {[kind |-> "null"]}
    \cup {[kind |-> "handle", slot |-> s] : s \in Slots}
    \cup {[kind |-> "node", node |-> n] : n \in S}
    \cup {[kind |-> "array", nodes |-> a] : a \in NodeArrays(S)}
    \cup {[kind |-> "query", matches |-> << >>]}

\* Which Handles hold one array once `slot` holds new DOMElement(selector):
\* the array handed in is kept as it is, every other input gives a new one.
sharedWith(slot) == {u \in Slots \ {slot} : {u, slot} \in aliases}

sharedAfter(slot, selector) ==
  IF selector.kind = "nodesOf"
  THEN IF selector.slot = slot THEN aliases
       ELSE {p \in aliases : slot \notin p}
              \cup {{slot, u} : u \in ({selector.slot} \cup sharedWith(selector.slot)) \ {slot}}
  ELSE {p \in aliases : slot \notin p}

\* ------------------------------------------------------------------ actions
Init ==
  /\ handles = [s \in Slots |-> << >>]
  /\ aliases = {}
  /\ evt = Undefined
  /\ dataStore = << >>
  /\ bucketSets = << >>
  /\ domListeners = [n \in Nodes |-> << >>]
  /\ views = [n \in Nodes |-> {}]
  /\ children = [p \in Containers |-> IF p = "body" THEN <<El("e1"), El("e2")>> ELSE << >>]
  /\ attrs = [e \in Elements |-> Val("null")]
  /\ display = [e \in Elements |-> ""]
  /\ classes = [e \in Elements |-> {}]
  /\ objects = << >>
  /\ listenerRegistry = [w \in Wrappers |-> << >>]
  /\ run = Idle
  /\ indexes = [s \in Slots |-> syncIndexes(<< >>)]
  /\ last = Call("init", "-", "-", "-", Undefined, << >>, FALSE, FALSE)

\* slot = new DOMElement(selector)
Construct(slot, selector) ==
  /\ handles' = [handles EXCEPT ![slot] = normalizeNodes(selector)]
  /\ indexes' = [indexes EXCEPT ![slot] = syncIndexes(normalizeNodes(selector))]
  /\ aliases' = sharedAfter(slot, selector)
  /\ last' = Call("new", slot, "-", "-", HandleRef(slot), << >>, FALSE, FALSE)
  /\ UNCHANGED <<run, listenerRegistry, objects, evt, evVars, views, domVars>>

\* slot = jQuery(selector): a Handle is passed on as its nodes array.
jQueryShim(slot, selector) ==
  IF selector.kind = "handle"
  THEN Construct(slot, [kind |-> "nodesOf", slot |-> selector.slot])
  ELSE Construct(slot, selector)

Changed(w) == <<w.ds, w.sets, w.dl>> # <<dataStore, bucketSets, domListeners>>

Commit(w) ==
  /\ dataStore' = w.ds
  /\ bucketSets' = w.sets
  /\ domListeners' = w.dl

\* No Set generation beyond MaxGen is needed by an on() over these nodes.
CanAllocate(ns, event) ==
  \A n \in Range(ns) : \E g \in 0..MaxGen : <<n, event, g>> \notin DOMAIN bucketSets

On(slot, event, handler) ==
  /\ CanAllocate(nodes(slot), event)
  /\ LET w == onEach(World, nodes(slot), event, handler)
     IN /\ Commit(w)
        /\ last' = Call("on", slot, event, handler,
                        IF w.fault THEN Undefined ELSE HandleRef(slot), << >>, w.fault,
                        Changed(w))
  /\ UNCHANGED <<indexes, run, listenerRegistry, objects, aliases, evt, handles, views, domVars>>

Off(slot, event, handler) ==
  /\ LET w == offEach(World, nodes(slot), event, handler)
     IN /\ Commit(w)
        /\ last' = Call("off", slot, event, handler,
                        IF w.fault THEN Undefined ELSE HandleRef(slot), << >>, w.fault,
                        Changed(w))
  /\ UNCHANGED <<indexes, run, listenerRegistry, objects, aliases, evt, handles, views, domVars>>

Trigger(slot, eventName) ==
  /\ LET w == triggerEach(World, nodes(slot), eventName)
     IN /\ Commit(w)
        /\ last' = Call("trigger", slot, eventName, "-",
                        IF w.fault THEN Undefined ELSE HandleRef(slot), w.invoked, w.fault,
                        Changed(w))
  /\ UNCHANGED <<indexes, run, listenerRegistry, objects, aliases, evt, handles, views, domVars>>

NativeDispatch(node, event) ==
  /\ last' = Call("native", "-", event, node, Undefined,
                  nativeListeners(domListeners[node], bucketSets, node, event), FALSE, FALSE)
  /\ UNCHANGED <<indexes, run, listenerRegistry, objects, aliases, evt, handles, evVars, views, domVars>>

\* Mutant of Remove: the elements are detached and the node list is kept.
Remove_KeepsNodes(slot) ==
  /\ children' = [p \in Containers |->
                    SelectSeq(children[p], LAMBDA c : c \notin {El(e) : e \in Range(elements(slot))})]
  /\ last' = Call("remove", slot, "-", "-", HandleRef(slot), << >>, FALSE,
                  children' # children)
  /\ UNCHANGED <<indexes, run, listenerRegistry, objects, handles, aliases, evt, evVars, views, attrs, display, classes>>

\* remove(): detach every element, then empty the node list; the array is
\* emptied in place (nodes.length = 0), for every Handle that holds it.
Remove(slot) ==
  /\ children' = [p \in Containers |->
                    SelectSeq(children[p], LAMBDA c : c \notin {El(e) : e \in Range(elements(slot))})]
  /\ handles' = [s \in Slots |-> IF s \in {slot} \cup sharedWith(slot) THEN << >> ELSE handles[s]]
  /\ indexes' = [indexes EXCEPT ![slot] = syncIndexes(<< >>)]
  /\ last' = Call("remove", slot, "-", "-", HandleRef(slot), << >>, FALSE,
                  children' # children)
  /\ UNCHANGED <<run, listenerRegistry, objects, aliases, evt, evVars, views, attrs, display, classes>>

\* ------------------------------------------------------------------ data
\* Properties the live view answers itself instead of looking them up.
AccessorNames == {"get", "set", "has"}
Function(name) == [t |-> "function", name |-> name]
\* A plain record is an object with an identity; `objects` holds its keys.
\* Largest number of plain records alive at once.
MaxObjects == 3
Obj(id) == [t |-> "object", id |-> id]
\* The identity a record made now gets (no record alive has it).
NextId == Cardinality(DOMAIN objects)
\* The keys of a record made by `{}`.
EmptyRecord == << >>
\* The heap once the record `ref` has been made with the keys `rec`.
Allocate(heap, ref, rec) == [i \in DOMAIN heap \cup {ref.id} |-> IF i = ref.id THEN rec ELSE heap[i]]

\* Mutant of liveView: the cached view is not looked up, a new one is made
\* on every call.
liveView_NoCache(ds, node, issued) ==
  LET ds1 == getNodeData(ds, node)
      proxy == [t |-> "proxy", id |-> <<node, Cardinality(issued)>>]
  IN [ds |-> [ds1 EXCEPT ![node] = MapSet(ds1[node], DATA_PROXY_KEY, proxy)],
      ret |-> proxy]

\* data() with no key on a node: the cached live view, or a new Proxy over
\* the node's Map, cached under DATA_PROXY_KEY. `issued` are the views
\* handed out for the node so far (a new object is none of them).
liveView(ds, node, issued) ==
  LET ds1 == getNodeData(ds, node)
      existing == MapGet(ds1[node], DATA_PROXY_KEY)
      proxy == [t |-> "proxy", id |-> <<node, Cardinality(issued)>>]
  IN IF Truthy(existing) THEN [ds |-> ds1, ret |-> existing]
     ELSE [ds |-> [ds1 EXCEPT ![node] = MapSet(ds1[node], DATA_PROXY_KEY, proxy)],
           ret |-> proxy]

\* Mutant of proxyGet: the record made for `f` is returned and not stored.
proxyGet_NoStore(ds, node, prop) ==
  IF prop \in AccessorNames THEN [ds |-> ds, ret |-> Function(prop)]
  ELSE IF prop = "f" /\ ~MapHas(ds[node], "f") THEN [ds |-> ds, ret |-> Obj(NextId)]
  ELSE [ds |-> ds, ret |-> MapGet(ds[node], prop)]

\* The Proxy's get trap for a string property.
proxyGet(ds, node, prop) ==
  IF prop \in AccessorNames THEN [ds |-> ds, ret |-> Function(prop)]
  ELSE IF prop = "f" /\ ~MapHas(ds[node], "f")
  THEN [ds |-> [ds EXCEPT ![node] = MapSet(ds[node], "f", Obj(NextId))],
        ret |-> Obj(NextId)]
  ELSE [ds |-> ds, ret |-> MapGet(ds[node], prop)]

\* Mutant of proxySet: the assignment lands on the Proxy's target object,
\* not on the node's Map.
proxySet_NoWriteThrough(ds, node, prop, value) == ds

\* The Proxy's set and deleteProperty traps for a string property.
proxySet(ds, node, prop, value) == [ds EXCEPT ![node] = MapSet(ds[node], prop, value)]

proxyDelete(ds, node, prop) == [ds EXCEPT ![node] = MapDelete(ds[node], prop)]

\* The Proxy's ownKeys trap: every key of the node's Map but the cache key.
ownKeys(ds, node) == IF node \in DOMAIN ds THEN DOMAIN ds[node] \ {DATA_PROXY_KEY} ELSE {}

\* Object.entries(record).forEach(([k, v]) => dataMap.set(k, v))
mergeEntries(m, rec) == [x \in DOMAIN m \cup DOMAIN rec |-> IF x \in DOMAIN rec THEN rec[x] ELSE m[x]]

DataCall(op, slot, key, arg, ret, node, rec) ==
  [Call(op, slot, key, arg, ret, << >>, FALSE, FALSE) EXCEPT !.node = node, !.rec = rec]

\* data()
DataView(slot) ==
  /\ IF nodes(slot) = << >>
     THEN /\ UNCHANGED <<dataStore, views>>
          /\ last' = [DataCall("data.view", slot, "-", "-", [t |-> "map"], "-", << >>) EXCEPT !.changed = dataStore' # dataStore]
     ELSE LET node == nodes(slot)[1]
              r == liveView(dataStore, node, views[node])
          IN /\ r.ret.id[2] < MaxViews
             /\ dataStore' = r.ds
             /\ views' = [views EXCEPT ![node] = @ \cup {r.ret}]
             /\ last' = [DataCall("data.view", slot, "-", "-", r.ret, node, << >>) EXCEPT !.changed = dataStore' # dataStore]
  /\ UNCHANGED <<indexes, run, listenerRegistry, objects, aliases, evt, handles, bucketSets, domListeners, domVars>>

\* data(key)
DataGet(slot, key) ==
  /\ IF nodes(slot) = << >>
     THEN /\ UNCHANGED dataStore
          /\ last' = [DataCall("data.get", slot, key, "-", Undefined, "-", << >>) EXCEPT !.changed = dataStore' # dataStore]
     ELSE LET node == nodes(slot)[1]
              ds1 == getNodeData(dataStore, node)
          IN /\ dataStore' = ds1
             /\ last' = [DataCall("data.get", slot, key, "-", MapGet(ds1[node], key), node, << >>) EXCEPT !.changed = dataStore' # dataStore]
  /\ UNCHANGED <<indexes, run, listenerRegistry, objects, aliases, evt, handles, bucketSets, domListeners, views, domVars>>

\* data(key, value) with a defined value
DataSet(slot, key, value) ==
  /\ IF nodes(slot) = << >>
     THEN /\ UNCHANGED dataStore
          /\ last' = [DataCall("data.set", slot, key, value, Undefined, "-", << >>) EXCEPT !.changed = dataStore' # dataStore]
     ELSE LET node == nodes(slot)[1]
              ds1 == getNodeData(dataStore, node)
          IN /\ dataStore' = [ds1 EXCEPT ![node] = MapSet(ds1[node], key, Val(value))]
             /\ last' = [DataCall("data.set", slot, key, value, HandleRef(slot), node, << >>) EXCEPT !.changed = dataStore' # dataStore]
  /\ UNCHANGED <<indexes, run, listenerRegistry, objects, aliases, evt, handles, bucketSets, domListeners, views, domVars>>

\* data(record)
DataMerge(slot, rec) ==
  /\ IF nodes(slot) = << >>
     THEN /\ UNCHANGED dataStore
          /\ last' = [DataCall("data.merge", slot, "-", "-", Undefined, "-", rec) EXCEPT !.changed = dataStore' # dataStore]
     ELSE LET node == nodes(slot)[1]
              ds1 == getNodeData(dataStore, node)
          IN /\ dataStore' = [ds1 EXCEPT ![node] = mergeEntries(ds1[node], rec)]
             /\ last' = [DataCall("data.merge", slot, "-", "-", HandleRef(slot), node, rec) EXCEPT !.changed = dataStore' # dataStore]
  /\ UNCHANGED <<indexes, run, listenerRegistry, objects, aliases, evt, handles, bucketSets, domListeners, views, domVars>>

\* The live views callers hold.
HeldViews == UNION {views[n] : n \in Nodes}

\* view[prop]
LiveGet(view, prop) ==
  /\ view \in HeldViews
  /\ LET node == view.id[1]
         r == proxyGet(dataStore, node, prop)
     IN /\ r.ret = Obj(NextId) => NextId < MaxObjects
        /\ dataStore' = r.ds
        /\ objects' = IF r.ret = Obj(NextId) THEN Allocate(objects, r.ret, EmptyRecord) ELSE objects
        /\ last' = [DataCall("live.get", "-", prop, "-", r.ret, node, << >>) EXCEPT !.changed = dataStore' # dataStore]
  /\ UNCHANGED <<indexes, run, listenerRegistry, aliases, evt, handles, bucketSets, domListeners, views, domVars>>

\* view[prop] = value
LiveSet(view, prop, value) ==
  /\ view \in HeldViews
  /\ LET node == view.id[1]
     IN /\ dataStore' = proxySet(dataStore, node, prop, Val(value))
        /\ last' = [DataCall("live.set", "-", prop, value, Val(value), node, << >>) EXCEPT !.changed = dataStore' # dataStore]
  /\ UNCHANGED <<indexes, run, listenerRegistry, objects, aliases, evt, handles, bucketSets, domListeners, views, domVars>>

\* delete view[prop]
LiveDelete(view, prop) ==
  /\ view \in HeldViews
  /\ LET node == view.id[1]
     IN /\ dataStore' = proxyDelete(dataStore, node, prop)
        /\ last' = [DataCall("live.delete", "-", prop, "-", Undefined, node, << >>) EXCEPT !.changed = dataStore' # dataStore]
  /\ UNCHANGED <<indexes, run, listenerRegistry, objects, aliases, evt, handles, bucketSets, domListeners, views, domVars>>

\* ------------------------------------------------------------------ structure, style, attributes
\* parentNode of an element ("none" when it is detached).
ParentIn(ch, e) ==
  IF \E p \in Containers : El(e) \in Range(ch[p])
  THEN CHOOSE p \in Containers : El(e) \in Range(ch[p])
  ELSE "none"

Parent(e) == ParentIn(children, e)

\* child contains el: appendChild / insertBefore raise on it.
Contains(ch, child, el) ==
  \/ child = el
  \/ ParentIn(ch, el) = child
  \/ (ParentIn(ch, el) \in Elements /\ ParentIn(ch, ParentIn(ch, el)) = child)

\* A node of the page is taken out of the place it is in; a clone just made
\* or parsed markup is a new node and is in no place yet.
Detach(ch, item) ==
  IF item.t = "el" THEN [p \in Containers |-> SelectSeq(ch[p], LAMBDA c : c # item)] ELSE ch

\* el.appendChild(item) / el.insertBefore(item, el.firstChild): a node that
\* is in the document is moved.
appendChild(ch, el, item) ==
  LET ch1 == Detach(ch, item) IN [ch1 EXCEPT ![el] = Append(ch1[el], item)]

insertFirst(ch, el, item) ==
  LET ch1 == Detach(ch, item) IN [ch1 EXCEPT ![el] = <<item>> \o ch1[el]]

\* Mutant of cloneNode: the node itself is handed on, not a copy.
cloneNode_Same(e) == El(e)

\* c.cloneNode(true)
cloneNode(e) == Clone(e)

\* el.innerHTML += text: the content is serialised and parsed again, so the
\* element children of el are replaced by copies and leave the document.
Reparsed(item) == IF item.t = "el" THEN Clone(item.id) ELSE item

appendHtml(ch, el) ==
  [ch EXCEPT ![el] = [i \in DOMAIN ch[el] |-> Reparsed(ch[el][i])] \o <<Html>>]

\* The document state a structural call threads through its forEach.
Doc == [ch |-> children, fault |-> FALSE]

\* append(child) with a literal node, over the elements of the Handle.
RECURSIVE appendNodeEach(_, _, _)
appendNodeEach(d, els, child) ==
  IF els = << >> \/ d.fault THEN d
  ELSE IF Contains(d.ch, child, Head(els)) THEN [d EXCEPT !.fault = TRUE]
  ELSE appendNodeEach([d EXCEPT !.ch = appendChild(d.ch, Head(els), El(child))],
                      Tail(els), child)

\* child.elements().forEach(c => el.appendChild(c.cloneNode(true)))
RECURSIVE appendClones(_, _, _)
appendClones(ch, el, srcs) ==
  IF srcs = << >> THEN ch
  ELSE appendClones(appendChild(ch, el, cloneNode(Head(srcs))), el, Tail(srcs))

RECURSIVE appendHandleEach(_, _, _)
appendHandleEach(ch, els, srcs) ==
  IF els = << >> THEN ch
  ELSE appendHandleEach(appendClones(ch, Head(els), srcs), Tail(els), srcs)

RECURSIVE appendHtmlEach(_, _)
appendHtmlEach(ch, els) ==
  IF els = << >> THEN ch ELSE appendHtmlEach(appendHtml(ch, Head(els)), Tail(els))

\* prepend(child) with a literal node.
RECURSIVE prependNodeEach(_, _, _)
prependNodeEach(d, els, child) ==
  IF els = << >> \/ d.fault THEN d
  ELSE IF Contains(d.ch, child, Head(els)) THEN [d EXCEPT !.fault = TRUE]
  ELSE prependNodeEach([d EXCEPT !.ch = insertFirst(d.ch, Head(els), El(child))],
                       Tail(els), child)

\* child.elements().forEach(c => el.insertBefore(c.cloneNode(true), el.firstChild))
RECURSIVE prependClones(_, _, _)
prependClones(ch, el, srcs) ==
  IF srcs = << >> THEN ch
  ELSE prependClones(insertFirst(ch, el, cloneNode(Head(srcs))), el, Tail(srcs))

RECURSIVE prependHandleEach(_, _, _)
prependHandleEach(ch, els, srcs) ==
  IF els = << >> THEN ch
  ELSE prependHandleEach(prependClones(ch, Head(els), srcs), Tail(els), srcs)

\* Longest child list the model lets an element grow to.
MaxKids == 1
Room(ch) == \A e \in Elements : Len(ch[e]) <= MaxKids

DomCall(op, slot, key, arg, ret, fault) ==
  Call(op, slot, key, arg, ret, << >>, fault, domVars' # domVars)

\* append(child: Element)
AppendNode(slot, child) ==
  /\ LET d == appendNodeEach(Doc, elements(slot), child)
     IN /\ Room(d.ch)
        /\ children' = d.ch
        /\ UNCHANGED <<attrs, display, classes>>
        /\ last' = DomCall("append", slot, "node", child,
                           IF d.fault THEN Undefined ELSE HandleRef(slot), d.fault)
  /\ UNCHANGED <<indexes, run, listenerRegistry, objects, aliases, evt, handles, evVars, views>>

\* append(child: DOMElement), the child Handle wrapping the nodes srcNodes
AppendHandle(slot, srcNodes) ==
  /\ children' = appendHandleEach(children, elements(slot), SelectSeq(srcNodes, isElementLike))
  /\ Room(children')
  /\ UNCHANGED <<attrs, display, classes>>
  /\ last' = DomCall("append", slot, "handle", "-", HandleRef(slot), FALSE) @@ [srcs |-> srcNodes]
  /\ UNCHANGED <<indexes, run, listenerRegistry, objects, aliases, evt, handles, evVars, views>>

\* append(child: string)
AppendHtml(slot) ==
  /\ children' = appendHtmlEach(children, elements(slot))
  /\ Room(children')
  /\ UNCHANGED <<attrs, display, classes>>
  /\ last' = DomCall("append", slot, "html", "-", HandleRef(slot), FALSE)
  /\ UNCHANGED <<indexes, run, listenerRegistry, objects, aliases, evt, handles, evVars, views>>

\* appendTo(parent): target.append(this) over the Handle made of the parent
AppendTo(slot, targetNodes) ==
  /\ children' = appendHandleEach(children, SelectSeq(targetNodes, isElementLike), elements(slot))
  /\ Room(children')
  /\ UNCHANGED <<attrs, display, classes>>
  /\ last' = DomCall("appendTo", slot, "-", "-", HandleRef(slot), FALSE)
               @@ [targets |-> targetNodes]
  /\ UNCHANGED <<indexes, run, listenerRegistry, objects, aliases, evt, handles, evVars, views>>

\* prepend(child: Element)
PrependNode(slot, child) ==
  /\ LET d == prependNodeEach(Doc, elements(slot), child)
     IN /\ Room(d.ch)
        /\ children' = d.ch
        /\ UNCHANGED <<attrs, display, classes>>
        /\ last' = DomCall("prepend", slot, "node", child,
                           IF d.fault THEN Undefined ELSE HandleRef(slot), d.fault)
  /\ UNCHANGED <<indexes, run, listenerRegistry, objects, aliases, evt, handles, evVars, views>>

\* prepend(child: DOMElement)
\* prepend(handle), with the children an element may hold bounded by room.
PrependWithin(slot, srcNodes, room) ==
  /\ children' = prependHandleEach(children, elements(slot), SelectSeq(srcNodes, isElementLike))
  /\ \A e \in Elements : Len(children'[e]) <= room
  /\ UNCHANGED <<attrs, display, classes>>
  /\ last' = DomCall("prepend", slot, "handle", "-", HandleRef(slot), FALSE) @@ [srcs |-> srcNodes]
  /\ UNCHANGED <<indexes, run, listenerRegistry, objects, aliases, evt, handles, evVars, views>>

PrependHandle(slot, srcNodes) == PrependWithin(slot, srcNodes, MaxKids)

\* css('display', value): style.setProperty on every element; the empty
\* value removes the property.
CssSet(slot, value) ==
  /\ display' = [e \in Elements |-> IF e \in Range(elements(slot)) THEN value ELSE display[e]]
  /\ UNCHANGED <<children, attrs, classes>>
  /\ last' = DomCall("css.set", slot, "display", value, HandleRef(slot), FALSE)
                @@ [was |-> display]
  /\ UNCHANGED <<indexes, run, listenerRegistry, objects, aliases, evt, handles, evVars, views>>

\* hide() is css('display', 'none'), show() is css('display', '').
Hide(slot) == CssSet(slot, "none")

Show(slot) == CssSet(slot, "")

\* attr('title', value)
AttrSet(slot, value) ==
  /\ attrs' = [e \in Elements |-> IF e \in Range(elements(slot)) THEN Val(value) ELSE attrs[e]]
  /\ UNCHANGED <<children, display, classes>>
  /\ last' = DomCall("attr.set", slot, "title", value, HandleRef(slot), FALSE)
  /\ UNCHANGED <<indexes, run, listenerRegistry, objects, aliases, evt, handles, evVars, views>>

\* addClass(token) / removeClass(token)
AddClass(slot, token) ==
  /\ classes' = [e \in Elements |->
                   IF e \in Range(elements(slot)) THEN classes[e] \cup {token} ELSE classes[e]]
  /\ UNCHANGED <<children, attrs, display>>
  /\ last' = DomCall("addClass", slot, token, "-", HandleRef(slot), FALSE)
  /\ UNCHANGED <<indexes, run, listenerRegistry, objects, aliases, evt, handles, evVars, views>>

RemoveClass(slot, token) ==
  /\ classes' = [e \in Elements |->
                   IF e \in Range(elements(slot)) THEN classes[e] \ {token} ELSE classes[e]]
  /\ UNCHANGED <<children, attrs, display>>
  /\ last' = DomCall("removeClass", slot, token, "-", HandleRef(slot), FALSE)
  /\ UNCHANGED <<indexes, run, listenerRegistry, objects, aliases, evt, handles, evVars, views>>

\* ------------------------------------------------------------------ scalar reads
Num(n) == [t |-> "number", n |-> n]
Point(top, left) == [t |-> "point", top |-> top, left |-> left]

\* What layout gives for an element: a box for an element that is in the
\* document and not hidden, none otherwise.
Rendered(e) == Parent(e) # "none" /\ display[e] # "none"
offsetWidth(e) == IF Rendered(e) THEN 100 ELSE 0
offsetHeight(e) == IF Rendered(e) THEN 50 ELSE 0
\* getComputedStyle(el).getPropertyValue('display')
computedDisplay(e) == IF display[e] = "" THEN "block" ELSE display[e]

cssGet(slot) ==
  IF elements(slot) = << >> THEN Val("") ELSE Val(computedDisplay(elements(slot)[1]))

attrGet(slot) ==
  IF elements(slot) = << >> THEN Undefined
  ELSE IF Nullish(attrs[elements(slot)[1]]) THEN Undefined
  ELSE attrs[elements(slot)[1]]

width(slot) ==
  IF elements(slot) = << >> THEN Num(0) ELSE Num(offsetWidth(elements(slot)[1]))

height(slot) ==
  IF elements(slot) = << >> THEN Num(0) ELSE Num(offsetHeight(elements(slot)[1]))

\* Mutant of offset: the first element is used without the guard.
offset_NoGuard(slot) ==
  IF elements(slot) = << >> THEN Undefined
  ELSE IF Rendered(elements(slot)[1]) THEN Point(10, 20) ELSE Point(0, 0)

offset(slot) ==
  IF elements(slot) = << >> THEN Point(0, 0)
  ELSE IF Rendered(elements(slot)[1]) THEN Point(10, 20) ELSE Point(0, 0)

isVisible(slot) ==
  [t |-> "boolean",
   b |-> \E i \in DOMAIN elements(slot) :
           offsetWidth(elements(slot)[i]) > 0 \/ offsetHeight(elements(slot)[i]) > 0]

Getters == {"css.get", "attr.get", "width", "height", "offset", "is", "length"}

getterValue(slot, getter) ==
  CASE getter = "css.get" -> cssGet(slot)
    [] getter = "attr.get" -> attrGet(slot)
    [] getter = "width" -> width(slot)
    [] getter = "height" -> height(slot)
    [] getter = "offset" -> offset(slot)
    [] getter = "is" -> isVisible(slot)
    [] getter = "length" -> Num(Len(nodes(slot)))

\* A scalar read; a read that got undefined where an object was expected
\* shows as a fault of the call.
Read(slot, getter) ==
  /\ last' = Call(getter, slot, "-", "-", getterValue(slot, getter), << >>,
                  getter = "offset" /\ getterValue(slot, getter) = Undefined, FALSE)
  /\ UNCHANGED <<indexes, run, listenerRegistry, objects, aliases, evt, handles, evVars, views, domVars>>

\* parent() and children(): the node list of the new Handle, over the parent
\* element, or the element children, of the first element.
parentList(slot) ==
  IF elements(slot) = << >> THEN << >>
  ELSE IF Parent(elements(slot)[1]) = "none" THEN << >>
  ELSE <<El(Parent(elements(slot)[1]))>>

childList(slot) ==
  IF elements(slot) = << >> THEN << >>
  ELSE children[elements(slot)[1]]

Traverse(slot, op) ==
  LET list == IF op = "parent" THEN parentList(slot) ELSE childList(slot)
  IN /\ last' = Call(op, slot, "-", "-", [t |-> "newHandle", nodes |-> list],
                     << >>, FALSE, FALSE)
     /\ UNCHANGED <<indexes, run, listenerRegistry, objects, aliases, evt, handles, evVars, views, domVars>>

\* ------------------------------------------------------------------ dispatch with payload
Arr(items) == [t |-> "array", items |-> items]
Bool(b) == [t |-> "boolean", b |-> b]
Null == Val("null")

\* toArgsArray(data)
toArgsArray(data) ==
  IF ~Truthy(data) THEN << >>
  ELSE IF data.t = "array" THEN data.items
  ELSE <<data>>

\* Mutant of toDetailValue: the first argument whatever their number.
toDetailValue_First(args) ==
  IF Len(args) = 0 THEN Undefined ELSE args[1]

\* toDetailValue(args)
toDetailValue(args) ==
  IF Len(args) = 0 THEN Undefined
  ELSE IF Len(args) = 1 THEN args[1] ELSE Arr(args)

\* What the handlers of the model do when they are called: F returns false,
\* P calls preventDefault() on its event argument, X raises, the others
\* return undefined.
Returns(handler) == IF handler = "F" THEN Bool(FALSE) ELSE Undefined
CallsPreventDefault(handler) == handler = "P"
Raises(handler) == handler = "X"

\* The event argument of trigger: a name, an object literal with a type and
\* possibly a detail, or the value built by Event(type).
Name(type) == [t |-> "string", v |-> type]
Plain(type, detail) == [t |-> "object", type |-> type, detail |-> detail]
EvtRef == [t |-> "evtref"]

\* Event(type): createJQueryEvent
createJQueryEvent(type) ==
  [t |-> "event", type |-> type, target |-> Null, detail |-> Undefined,
   defaultPrevented |-> FALSE, propagationStopped |-> FALSE]

typeOf(event) == CASE event.t = "string" -> event.v
                   [] event.t = "object" -> event.type
                   [] event.t = "evtref" -> evt.type

\* The state a dispatch threads through its loops: the invocations made, the
\* raise of a handler, the flags of the event value built ahead, and the
\* flags closed over by the synthetic event created for the current node.
Dispatch0 ==
  [invoked |-> << >>, fault |-> FALSE, evt |-> evt,
   own |-> [defaultPrevented |-> FALSE, propagationStopped |-> FALSE]]

\* Mutant of Coalesce: the right operand whatever the left one is.
Coalesce_Right(x, y) == y
\* x ?? y
Coalesce(x, y) == IF Nullish(x) THEN y ELSE x

\* The synthetic event trigger hands to the handlers of a node: created from
\* the name, or wrapped around the event-like value.
synthetic(event, node, pos, detail) ==
  LET made ==
        CASE event.t = "string" ->
               [obj |-> <<"created", pos>>, flags |-> "own", type |-> event.v,
                target |-> Val(node), currentTarget |-> Val(node), detail |-> detail]
          [] event.t = "object" ->
               [obj |-> <<"wrapped", pos>>, flags |-> "none", type |-> event.type,
                target |-> Val(node), currentTarget |-> Val(node),
                detail |-> Coalesce(event.detail, detail)]
          [] event.t = "evtref" ->
               [obj |-> <<"wrapped", pos>>, flags |-> "evt", type |-> evt.type,
                target |-> Coalesce(evt.target, Val(node)), currentTarget |-> Val(node),
                detail |-> Coalesce(evt.detail, detail)]
  IN IF detail # Undefined /\ made.detail = Undefined
     THEN [made EXCEPT !.detail = detail] ELSE made

\* synthetic.isDefaultPrevented() / isPropagationStopped()
isDefaultPrevented(d, syn) ==
  CASE syn.flags = "own" -> d.own.defaultPrevented
    [] syn.flags = "evt" -> d.evt.defaultPrevented
    [] syn.flags = "none" -> FALSE

isPropagationStopped(d, syn) ==
  CASE syn.flags = "own" -> d.own.propagationStopped
    [] syn.flags = "evt" -> d.evt.propagationStopped
    [] syn.flags = "none" -> FALSE

\* Mutant of preventDefault: the method of the event value is called unbound
\* and reaches no flag.
preventDefault_Unbound(d, syn) ==
  CASE syn.flags = "own" -> [d EXCEPT !.own.defaultPrevented = TRUE]
    [] syn.flags = "evt" -> d
    [] syn.flags = "none" -> d

\* synthetic.preventDefault() / stopPropagation()
preventDefault(d, syn) ==
  CASE syn.flags = "own" -> [d EXCEPT !.own.defaultPrevented = TRUE]
    [] syn.flags = "evt" -> [d EXCEPT !.evt.defaultPrevented = TRUE]
    [] syn.flags = "none" -> d

stopPropagation(d, syn) ==
  CASE syn.flags = "own" -> [d EXCEPT !.own.propagationStopped = TRUE]
    [] syn.flags = "evt" -> [d EXCEPT !.evt.propagationStopped = TRUE]
    [] syn.flags = "none" -> d

\* One invocation, as the handler sees it on entry.
Invocation(d, node, handler, syn, args) ==
  [node |-> node, handler |-> handler, kind |-> "synthetic", obj |-> syn.obj,
   type |-> syn.type, target |-> syn.target, currentTarget |-> syn.currentTarget,
   detail |-> syn.detail, args |-> args,
   isDefaultPrevented |-> isDefaultPrevented(d, syn),
   isPropagationStopped |-> isPropagationStopped(d, syn)]

\* Mutant of afterHandler: the flags are set whatever the handler returns.
afterHandler_AnyResult(d, syn, handler) ==
  stopPropagation(preventDefault(d, syn), syn)

\* What a handler that returned leaves behind: its own preventDefault(), and
\* the two calls trigger makes when the result is false.
afterHandler(d, syn, handler) ==
  LET d1 == IF CallsPreventDefault(handler) THEN preventDefault(d, syn) ELSE d
  IN IF Returns(handler) = Bool(FALSE)
     THEN stopPropagation(preventDefault(d1, syn), syn)
     ELSE d1

\* Mutant of deliverEach: a raise is caught and delivery goes on.
RECURSIVE deliverEach_Isolated(_, _, _, _, _)
deliverEach_Isolated(d, node, bucket, syn, args) ==
  IF bucket = << >> THEN d
  ELSE LET d1 == [d EXCEPT !.invoked = Append(@, Invocation(d, node, Head(bucket), syn, args))]
       IN deliverEach_Isolated(IF Raises(Head(bucket)) THEN d1
                               ELSE afterHandler(d1, syn, Head(bucket)),
                               node, Tail(bucket), syn, args)

\* bucket.forEach(handler => { result = handler.call(node, synthetic, ...args); ... })
RECURSIVE deliverEach(_, _, _, _, _)
deliverEach(d, node, bucket, syn, args) ==
  IF bucket = << >> THEN d
  ELSE LET d1 == [d EXCEPT !.invoked = Append(@, Invocation(d, node, Head(bucket), syn, args))]
       IN IF Raises(Head(bucket)) THEN [d1 EXCEPT !.fault = TRUE]
          ELSE deliverEach(afterHandler(d1, syn, Head(bucket)), node, Tail(bucket), syn, args)

\* Mutant of triggerAt: the flags of the synthetic event made for a name
\* are carried over from the position before.
triggerAt_KeepsFlags(d, node, pos, event, args, detail) ==
  LET cell == getEventStore(dataStore, node)
  IN IF cell = Undefined THEN d
     ELSE IF ~isStore(cell) THEN [d EXCEPT !.fault = TRUE]
     ELSE IF ~MapHas(cell.buckets, typeOf(event)) THEN d
     ELSE IF Len(bucketSets[cell.buckets[typeOf(event)]]) = 0 THEN d
     ELSE deliverEach(d, node, bucketSets[cell.buckets[typeOf(event)]],
                      synthetic(event, node, pos, detail), args)

\* The body of trigger's nodes.forEach for the node at position pos.
triggerAt(d, node, pos, event, args, detail) ==
  LET cell == getEventStore(dataStore, node)
  IN IF cell = Undefined THEN d
     ELSE IF ~isStore(cell) THEN [d EXCEPT !.fault = TRUE]
     ELSE IF ~MapHas(cell.buckets, typeOf(event)) THEN d
     ELSE IF Len(bucketSets[cell.buckets[typeOf(event)]]) = 0 THEN d
     ELSE deliverEach([d EXCEPT !.own = Dispatch0.own], node,
                      bucketSets[cell.buckets[typeOf(event)]],
                      synthetic(event, node, pos, detail), args)

RECURSIVE triggerFrom(_, _, _, _, _, _)
triggerFrom(d, ns, pos, event, args, detail) ==
  IF pos > Len(ns) \/ d.fault THEN d
  ELSE triggerFrom(triggerAt(d, ns[pos], pos, event, args, detail),
                   ns, pos + 1, event, args, detail)

\* Event(type)
NewEvent(type) ==
  /\ evt' = createJQueryEvent(type)
  /\ last' = Call("Event", "-", type, "-", EvtRef, << >>, FALSE, FALSE)
  /\ UNCHANGED <<indexes, run, listenerRegistry, objects, handles, aliases, evVars, views, domVars>>

\* trigger(event, data)
TriggerWith(slot, event, data) ==
  /\ event.t = "evtref" => evt # Undefined
  /\ LET args == toArgsArray(data)
         d == triggerFrom(Dispatch0, nodes(slot), 1, event, args, toDetailValue(args))
     IN /\ evt' = d.evt
        /\ last' = [Call("trigger", slot, typeOf(event), "-",
                         IF d.fault THEN Undefined ELSE HandleRef(slot),
                         d.invoked, d.fault, FALSE)
                      EXCEPT !.rec = args] @@ [event |-> event, data |-> data]
  /\ UNCHANGED <<indexes, run, listenerRegistry, objects, handles, aliases, evVars, views, domVars>>

\* A native event as the page makes it: new Event(type), new CustomEvent(type,
\* {detail}) (detail is null when none is given), or an Event that carries
\* __pageturnDetail.
NativeEvent(class, type, init, fallback) ==
  [class |-> class, type |-> type,
   detail |-> IF class = "CustomEvent" THEN Coalesce(init, Null) ELSE Undefined,
   init |-> init, fallback |-> fallback]

\* extractNativeArgs(event)
extractNativeArgs(event) ==
  IF event.class = "CustomEvent" /\ event.detail.t = "array" THEN event.detail.items
  ELSE IF event.class = "CustomEvent" /\ event.detail # Undefined THEN <<event.detail>>
  ELSE IF event.fallback.t = "array" THEN event.fallback.items
  ELSE IF event.fallback # Undefined THEN <<event.fallback>>
  ELSE << >>

NativeInvocation(node, handler, event, args) ==
  [node |-> node, handler |-> handler, kind |-> "native", obj |-> <<"native">>,
   type |-> event.type, args |-> args]

\* bucket.forEach(cb => { result = cb.call(node, nativeEvent, ...args); ... })
\* n.prevented: preventDefault() was called on the native event.
RECURSIVE bridgeEach(_, _, _, _, _)
bridgeEach(n, node, bucket, event, args) ==
  IF bucket = << >> THEN n
  ELSE LET n1 == [n EXCEPT !.invoked = Append(@, NativeInvocation(node, Head(bucket), event, args))]
       IN IF Raises(Head(bucket)) THEN [n1 EXCEPT !.fault = TRUE]
          ELSE bridgeEach([n1 EXCEPT !.prevented =
                             @ \/ CallsPreventDefault(Head(bucket))
                               \/ Returns(Head(bucket)) = Bool(FALSE)],
                          node, Tail(bucket), event, args)

\* The page runs every listener installed on the node for the type, in
\* installation order; a raise ends that listener only.
RECURSIVE listenersEach(_, _, _, _)
listenersEach(n, ls, node, event) ==
  IF ls = << >> THEN n
  ELSE listenersEach(IF Head(ls)[1] = event.type
                     THEN bridgeEach(n, node, bucketSets[Head(ls)[2]], event,
                                     extractNativeArgs(event))
                     ELSE n,
                     Tail(ls), node, event)

\* node.dispatchEvent(event), or the same occurrence made by the page.
NativeOccur(node, event) ==
  /\ LET n == listenersEach([invoked |-> << >>, fault |-> FALSE, prevented |-> FALSE],
                            domListeners[node], node, event)
     IN last' = [Call("native", "-", event.type, node, Bool(n.prevented), n.invoked,
                      n.fault, FALSE)
                   EXCEPT !.node = node] @@ [event |-> event]
  /\ UNCHANGED <<indexes, run, listenerRegistry, objects, handles, aliases, evt, evVars, views, domVars>>

\* ------------------------------------------------------------------ event specification
EvNodes == Elements
\* A Handle keeps no event state of its own, so one slot, re-constructed
\* between calls, stands for every Handle a caller may go through.
EvSlots == {"h1"}
\* The (event, handler) pairs the callers of the model register.
EvRegistrations == {<<"click", "A">>, <<"click", "B">>, <<"turned", "A">>}

NextEv ==
  \/ \E slot \in EvSlots, sel \in Selectors(EvNodes) : Construct(slot, sel)
  \/ \E slot \in EvSlots, r \in EvRegistrations : On(slot, r[1], r[2])
  \/ \E slot \in EvSlots, ev \in EventNames, hd \in Handlers \cup {NoHandler} : Off(slot, ev, hd)
  \/ \E slot \in EvSlots, ev \in EventNames : Trigger(slot, ev)
  \/ \E n \in EvNodes, ev \in EventNames : NativeDispatch(n, ev)

SpecEv == Init /\ [][NextEv]_vars

\* ------------------------------------------------------------------ read-outs
\* The handlers registered for (node, event), in registration order.
HandlerSetOf(ds, sets, n, ev) ==
  LET store == getEventStore(ds, n)
  IN IF store = Undefined THEN << >>
     ELSE IF ~isStore(store) THEN << >>
     ELSE IF ~MapHas(store.buckets, ev) THEN << >>
     ELSE sets[store.buckets[ev]]

HandlerSet(n, ev) == HandlerSetOf(dataStore, bucketSets, n, ev)
\* ... and after the step.
HandlerSetNext(n, ev) == HandlerSetOf(dataStore', bucketSets', n, ev)

\* The number of native listener bridges installed on the node for the name.
BridgeCountOf(dl, n, ev) ==
  Cardinality({i \in DOMAIN dl[n] : dl[n][i][1] = ev})

BridgeCount(n, ev) == BridgeCountOf(domListeners, n, ev)
BridgeCountNext(n, ev) == BridgeCountOf(domListeners', n, ev)

Count(seq, x) == Cardinality({i \in DOMAIN seq : seq[i] = x})

\* What a dispatch of `ev` over the node list must invoke: every handler
\* registered on a node, once for each position the node has in the list.
DeliveredOnce(ns, ev, invoked, kind) ==
  \A n \in Nodes, g \in Handlers :
    Count(invoked, <<n, g, kind>>) =
      Count(ns, n) * (IF g \in Range(HandlerSet(n, ev)) THEN 1 ELSE 0)

\* ------------------------------------------------------------------ claims: events
\* C1: on a node that supports listener installation, for every event name
\* exactly one native bridge is installed while the handler set of the name
\* is non-empty and none while it is empty or absent.
C1_OneBridgeIffHandlers ==
  \A n \in Nodes, ev \in EventNames :
    HasAddEventListener(n) =>
      BridgeCount(n, ev) = (IF Len(HandlerSet(n, ev)) > 0 THEN 1 ELSE 0)

\* The last handler of click was removed from e1 (bridge gone) while turned
\* keeps its handler and bridge, and the two click handlers of e2 share a
\* single bridge.
C1_Witness ==
  /\ last.op = "off" /\ last.key = "click" /\ last.arg = "A" /\ last.changed
  /\ "e1" \in Range(nodes(last.slot))
  /\ HandlerSet("e1", "click") = << >>
  /\ BridgeCount("e1", "click") = 0
  /\ HandlerSet("e1", "turned") = <<"A">>
  /\ BridgeCount("e1", "turned") = 1
  /\ HandlerSet("e2", "click") = <<"B", "A">>
  /\ BridgeCount("e2", "click") = 1

\* C2: off(name, h) removes only h from the nodes of the Handle, leaving the
\* other handlers of the name, the other names and the other nodes as they
\* were; and a trigger invokes each registered handler exactly once per node.
C2_OffStep ==
  (last'.op = "off" /\ last'.arg \in Handlers) =>
    \A n \in Nodes, ev \in EventNames :
      HandlerSetNext(n, ev) =
        IF n \in Range(nodes(last'.slot)) /\ ev = last'.key
        THEN SetDelete(HandlerSet(n, ev), last'.arg)
        ELSE HandlerSet(n, ev)

C2_TriggerStep ==
  last'.op = "trigger" =>
    DeliveredOnce(nodes(last'.slot), last'.key, last'.invoked, "synthetic")

C2_OffRemovesOnlyHandler == [][C2_OffStep /\ C2_TriggerStep]_vars

\* off('click', A) through a Handle over e1 took A away there and left B on
\* click, A on turned and A on the click of e2.
C2_Witness ==
  /\ last.op = "off" /\ last.key = "click" /\ last.arg = "A" /\ last.changed
  /\ nodes(last.slot) = <<"e1">>
  /\ HandlerSet("e1", "click") = <<"B">>
  /\ "A" \in Range(HandlerSet("e1", "turned"))
  /\ "A" \in Range(HandlerSet("e2", "click"))

\* C3: registration is idempotent per (node, name, handler): registering a
\* handler that every node of the Handle already has changes nothing, no
\* handler is invoked twice per node position by a trigger, and one
\* off(name, h) removes h completely.
C3_AlreadyRegistered(slot, ev, hd) ==
  \A n \in Range(nodes(slot)) : hd \in Range(HandlerSet(n, ev))

C3_Step ==
  /\ (last'.op = "on" /\ C3_AlreadyRegistered(last'.slot, last'.key, last'.arg))
       => UNCHANGED evVars
  /\ last'.op = "trigger" =>
       \A n \in Nodes, g \in Handlers :
         Count(last'.invoked, <<n, g, "synthetic">>) <= Count(nodes(last'.slot), n)
  /\ (last'.op = "off" /\ last'.arg \in Handlers) =>
       \A n \in Range(nodes(last'.slot)) :
         last'.arg \notin Range(HandlerSetNext(n, last'.key))

C3_RegistrationIdempotent == [][C3_Step]_vars

\* on('click', A) was repeated on e1 (A precedes B in the set and the call
\* changed nothing).
C3_Witness ==
  /\ last.op = "on" /\ last.key = "click" /\ last.arg = "A" /\ ~last.changed
  /\ nodes(last.slot) = <<"e1">>
  /\ HandlerSet("e1", "click") = <<"A", "B">>

\* C4: off(name) without a handler clears the name on every node of the
\* Handle: no handler and no bridge remain for it there, other names and
\* other nodes keep theirs, and a later on(name, h) leaves exactly the
\* handlers on(name, h) adds to what is registered (h alone after a clear).
C4_Step ==
  /\ (last'.op = "off" /\ last'.arg = NoHandler) =>
       \A n \in Nodes, ev \in EventNames :
         IF n \in Range(nodes(last'.slot)) /\ ev = last'.key
         THEN HandlerSetNext(n, ev) = << >> /\ BridgeCountNext(n, ev) = 0
         ELSE /\ HandlerSetNext(n, ev) = HandlerSet(n, ev)
              /\ BridgeCountNext(n, ev) = BridgeCount(n, ev)
  /\ last'.op = "on" =>
       \A n \in Range(nodes(last'.slot)) :
         HandlerSetNext(n, last'.key) = SetAdd(HandlerSet(n, last'.key), last'.arg)
  /\ last'.op = "trigger" =>
       DeliveredOnce(nodes(last'.slot), last'.key, last'.invoked, "synthetic")

C4_OffWithoutHandlerClears == [][C4_Step]_vars

\* off('click') through a Handle over e1 and e2 cleared registered handlers
\* and left the turned handlers of e1 in place.
C4_Witness ==
  /\ last.op = "off" /\ last.key = "click" /\ last.arg = NoHandler /\ last.changed
  /\ nodes(last.slot) = <<"e1", "e2">>
  /\ HandlerSet("e1", "click") = << >> /\ HandlerSet("e2", "click") = << >>
  /\ BridgeCount("e1", "click") = 0
  /\ HandlerSet("e1", "turned") = <<"A">>
  /\ BridgeCount("e1", "turned") = 1

\* C10: trigger(name) changes no state at all: on a node without a handler
\* for the name it invokes nothing, creates no data-store entry and no event
\* store, installs no bridge and raises nothing; no invocation comes from a
\* native dispatch; nodes of the Handle that do have handlers are delivered to.
C10_Step ==
  last'.op = "trigger" =>
    /\ UNCHANGED <<indexes, run, listenerRegistry, objects, aliases, evt, handles, dataStore, bucketSets, domListeners, views, domVars>>
    /\ ~last'.fault /\ ~last'.changed
    /\ \A i \in DOMAIN last'.invoked :
         /\ last'.invoked[i][3] = "synthetic"
         /\ HandlerSet(last'.invoked[i][1], last'.key) # << >>
    /\ DeliveredOnce(nodes(last'.slot), last'.key, last'.invoked, "synthetic")

C10_TriggerWithoutHandlersIsNoOp == [][C10_Step]_vars

\* trigger('click') over [e1, e2] where e1 has no per-node state at all and
\* e2 has a handler: only e2's handler ran.
C10_Witness ==
  /\ last.op = "trigger" /\ last.key = "click"
  /\ nodes(last.slot) = <<"e1", "e2">>
  /\ "e1" \notin DOMAIN dataStore
  /\ BridgeCount("e1", "click") = 0
  /\ last.invoked = <<<<"e2", "A", "synthetic">>>>

\* ------------------------------------------------------------------ data specifications
Proxies == {[t |-> "proxy", id |-> <<n, i>>] : n \in Nodes, i \in 0..MaxViews}

\* Keyed reads and writes and live-view reads, writes and deletes.
DataKeys == {"k", "get", EVENT_STORE_KEY}
DataValues == {"v1", "null"}
DataRecords == {("k" :> Val("v1")), ("k" :> Val("null")) @@ ("get" :> Val("v1"))}

\* The Handle wraps nothing, e1, or e1 and e2.
DataSelectors ==
  {[kind |-> "null"], [kind |-> "node", node |-> "e1"],
   [kind |-> "array", nodes |-> <<"e1", "e2">>]}

NextData ==
  \/ \E slot \in EvSlots, sel \in DataSelectors : Construct(slot, sel)
  \/ \E slot \in EvSlots : DataView(slot)
  \/ \E slot \in EvSlots, key \in DataKeys : DataGet(slot, key)
  \/ \E slot \in EvSlots, key \in DataKeys, v \in DataValues : DataSet(slot, key, v)
  \/ \E slot \in EvSlots, rec \in DataRecords : DataMerge(slot, rec)
  \/ \E view \in Proxies, key \in DataKeys : LiveGet(view, key)
  \/ \E view \in Proxies, key \in DataKeys, v \in DataValues : LiveSet(view, key, v)
  \/ \E view \in Proxies, key \in DataKeys : LiveDelete(view, key)
  \/ \E slot \in EvSlots : On(slot, "click", "A")

SpecData == Init /\ [][NextData]_vars

\* The data calls together with the event calls, over two Handles.
ViewKeys == {"k"}
ViewValues == {"v1"}

\* The second Handle wraps nothing or a single node.
SingleSelectors(S) == {[kind |-> "null"]} \cup {[kind |-> "node", node |-> n] : n \in S}

NextView ==
  \/ \E sel \in Selectors(EvNodes) : Construct("h1", sel)
  \/ \E sel \in SingleSelectors(EvNodes) : Construct("h2", sel)
  \/ \E slot \in Slots : DataView(slot)
  \/ \E slot \in Slots, key \in ViewKeys : DataGet(slot, key)
  \/ \E slot \in Slots, key \in ViewKeys, v \in ViewValues : DataSet(slot, key, v)
  \/ \E slot \in Slots : DataMerge(slot, "k" :> Val("v1"))
  \/ \E view \in Proxies, key \in ViewKeys, v \in ViewValues : LiveSet(view, key, v)
  \/ \E view \in Proxies, key \in ViewKeys : LiveDelete(view, key)
  \/ \E slot \in Slots : On(slot, "click", "A")
  \/ \E slot \in Slots : Off(slot, "click", "A")
  \/ \E slot \in Slots : Trigger(slot, "click")

SpecView == Init /\ [][NextView]_vars

\* ------------------------------------------------------------------ claims: data
\* The value the node's Map holds under the key (undefined when none).
Stored(ds, n, k) == IF n \in DOMAIN ds THEN MapGet(ds[n], k) ELSE Undefined

\* C5: once data() has returned a live view for a node, every later data()
\* whose first node is that node returns the identical object, whatever
\* keyed writes, merges, live-view writes and deletes and event calls came
\* in between, and through whichever Handle it is made.
C5_Step ==
  /\ (last'.op = "data.view" /\ last'.node # "-") =>
       (views[last'.node] # {} => last'.ret \in views[last'.node])
  /\ \A n \in Nodes : Cardinality(views'[n]) <= 1

C5_LiveViewIdentity == [][C5_Step]_vars

\* A second Handle over e1 got the view that already existed, after a keyed
\* write and a registration on e1.
C5_Witness ==
  /\ last.op = "data.view" /\ last.slot = "h2" /\ last.node = "e1" /\ ~last.changed
  /\ nodes("h1") = <<"e1", "e2">>
  /\ views["e1"] = {last.ret}
  /\ Stored(dataStore, "e1", "k") = Val("v1")
  /\ HandlerSet("e1", "click") = <<"A">>

\* The round trip of the data store over the keys K: a keyed or live-view
\* write stores the value under the key of the addressed node, a keyed or
\* live-view read returns what is stored, and what is stored under a key
\* changes only by a write, merge or delete of that key on that node.
C6_Step(K) ==
  /\ (last'.op \in {"data.set", "live.set"} /\ last'.node # "-" /\ last'.key \in K) =>
       Stored(dataStore', last'.node, last'.key) = Val(last'.arg)
  /\ (last'.op \in {"data.get", "live.get"} /\ last'.node # "-" /\ last'.key \in K) =>
       (Stored(dataStore, last'.node, last'.key) # Undefined =>
          last'.ret = Stored(dataStore, last'.node, last'.key))
  /\ \A n \in Nodes, k \in K :
       (Stored(dataStore, n, k) # Undefined /\ Stored(dataStore', n, k) # Stored(dataStore, n, k)) =>
         /\ last'.node = n
         /\ \/ last'.op \in {"data.set", "live.set", "live.delete"} /\ last'.key = k
            \/ last'.op = "data.merge" /\ k \in DOMAIN last'.rec

C6_RoundTripReserved == [][C6_Step({EVENT_STORE_KEY})]_vars

C7_DataWritesFanOut ==
  /\ last.op = "data.set" =>
       \A n \in Range(nodes(last.slot)) : Stored(dataStore, n, last.key) = Val(last.arg)
  /\ last.op = "data.merge" =>
       \A n \in Range(nodes(last.slot)), k \in DOMAIN last.rec :
         Stored(dataStore, n, k) = last.rec[k]

\* C8: data(key, value) and data(record) return the Handle they were called
\* on, for every Handle, one with zero nodes included.
C8_SettersReturnHandle ==
  last.op \in {"data.set", "data.merge"} => last.ret = HandleRef(last.slot)

\* ------------------------------------------------------------------ facade specification
\* Every method of the facade, called on a Handle that wraps nothing or e1;
\* e2 is the literal node, and the other Handle, given as argument.
DomSelectors ==
  {[kind |-> "null"], [kind |-> "query", matches |-> << >>],
   [kind |-> "node", node |-> "e1"]}
DomArguments == {<<"e2">>, << >>}

NextDom ==
  \/ \E slot \in EvSlots, sel \in DomSelectors : Construct(slot, sel)
  \/ \E slot \in EvSlots : Remove(slot)
  \/ \E slot \in EvSlots : AppendNode(slot, "e2")
  \/ \E slot \in EvSlots, src \in DomArguments : AppendHandle(slot, src)
  \/ \E slot \in EvSlots : AppendHtml(slot)
  \/ \E slot \in EvSlots, target \in DomArguments : AppendTo(slot, target)
  \/ \E slot \in EvSlots : PrependNode(slot, "e2")
  \/ \E slot \in EvSlots, src \in DomArguments : PrependHandle(slot, src)
  \/ \E slot \in EvSlots : Hide(slot)
  \/ \E slot \in EvSlots : Show(slot)
  \/ \E slot \in EvSlots : AttrSet(slot, "t1")
  \/ \E slot \in EvSlots : AddClass(slot, "c")
  \/ \E slot \in EvSlots : RemoveClass(slot, "c")
  \/ \E slot \in EvSlots, getter \in Getters : Read(slot, getter)
  \/ \E slot \in EvSlots, op \in {"parent", "children"} : Traverse(slot, op)
  \/ \E slot \in EvSlots : On(slot, "click", "A")
  \/ \E slot \in EvSlots : Off(slot, "click", NoHandler)
  \/ \E slot \in EvSlots : Trigger(slot, "click")
  \/ \E slot \in EvSlots : DataView(slot)
  \/ \E slot \in EvSlots : DataGet(slot, "k")
  \/ \E slot \in EvSlots : DataSet(slot, "k", "v1")
  \/ \E slot \in EvSlots : DataMerge(slot, "k" :> Val("v1"))

SpecDom == Init /\ [][NextDom]_vars

\* The calls of the facade that have a receiver.
Methods ==
  {"on", "off", "trigger", "remove", "append", "appendTo", "prepend", "css.set",
   "attr.set", "addClass", "removeClass", "parent", "children",
   "data.view", "data.get", "data.set", "data.merge"} \cup Getters

Defaults ==
  [g \in {"css.get", "attr.get", "data.get", "width", "height", "offset"} |->
     CASE g = "css.get" -> Val("")
       [] g \in {"attr.get", "data.get"} -> Undefined
       [] g \in {"width", "height"} -> Num(0)
       [] g = "offset" -> Point(0, 0)]

C9_Step ==
  (last'.op \in Methods /\ nodes(last'.slot) = << >>) =>
    /\ ~last'.fault
    /\ UNCHANGED <<dataStore, bucketSets, domListeners, views, domVars>>
    /\ last'.invoked = << >>
    /\ last'.op \in DOMAIN Defaults => last'.ret = Defaults[last'.op]

\* C9: a method called on a Handle with zero nodes completes without fault,
\* changes no node's structure, attributes, styles, classes, handlers or
\* data, and a scalar getter returns its default: css(name) the empty string,
\* attr(name) and data(key) undefined, width() and height() 0, offset()
\* {top: 0, left: 0}.
C9_EmptyHandleIsInert == [][C9_Step]_vars

\* offset() was read from a Handle emptied by remove(), in a document where
\* e1 is detached and carries a class.
C9_Witness ==
  /\ nodes("h1") = << >>
  /\ Parent("e1") = "none"
  /\ classes["e1"] # {}
  /\ last.op = "offset"
  /\ last.ret = Point(0, 0)

\* ------------------------------------------------------------------ dispatch specification
\* Registrations of the handlers A, F, P and X for one name through a
\* Handle over e1 and e2, removals through it and through a Handle over
\* e1, and dispatches with every kind of event argument and payload.
DispatchHandlers == {"A", "F", "P", "X"}
\* Most handlers the model registers for one node at a time.
MaxBucket == 2
DispatchSelectors ==
  {[kind |-> "null"], [kind |-> "node", node |-> "e1"],
   [kind |-> "array", nodes |-> <<"e1", "e2">>]}
Payloads ==
  {Undefined, Num(0), Num(3), Arr(<< >>), Arr(<<Num(3)>>),
   Arr(<<Num(3), Arr(<<Num(3), Num(4)>>)>>)}
\* The calls trigger(event, data) of the model: every payload with the name,
\* and payloads with and without a detail of their own with the event values.
TriggerInputs ==
  ({Name("turned")} \X Payloads)
    \cup ({EvtRef, Plain("turned", Undefined), Plain("turned", Val("own"))}
            \X {Undefined, Num(3)})
    \cup {<<Plain("turned", Null), Num(3)>>,
          <<Plain("turned", Val("own")), Arr(<<Num(3), Arr(<<Num(3), Num(4)>>)>>)>>}
NativeEvents ==
  {NativeEvent("Event", "turned", Undefined, Undefined),
   NativeEvent("CustomEvent", "turned", Undefined, Undefined),
   NativeEvent("CustomEvent", "turned", Num(3), Undefined),
   NativeEvent("CustomEvent", "turned", Arr(<<Num(3), Num(4)>>), Undefined),
   NativeEvent("Event", "turned", Undefined, Arr(<<Num(3), Num(4)>>))}

NextDispatch ==
  \/ \E sel \in DispatchSelectors : Construct("h1", sel)
  \/ \E handler \in DispatchHandlers :
       /\ nodes("h1") = <<"e1", "e2">>
       /\ \A n \in Range(nodes("h1")) : Len(HandlerSet(n, "turned")) < MaxBucket
       /\ On("h1", "turned", handler)
  \/ \E handler \in DispatchHandlers \cup {NoHandler} : Off("h1", "turned", handler)
  \/ NewEvent("turned")
  \/ \E in \in TriggerInputs : TriggerWith("h1", in[1], in[2])
  \/ \E event \in NativeEvents : NativeOccur("e1", event)

SpecDispatch == Init /\ [][NextDispatch]_vars

\* ------------------------------------------------------------------ claims: dispatch
\* The calls that carry their event argument and payload.
IsTrigger(call) == call.op = "trigger" /\ "event" \in DOMAIN call
IsNative(call) == call.op = "native" /\ "event" \in DOMAIN call
ByName(call) == IsTrigger(call) /\ call.event.t = "string"

\* The detail the claims derive from an argument list.
DerivedDetail(args) ==
  CASE Len(args) = 0 -> Undefined
    [] Len(args) = 1 -> args[1]
    [] Len(args) > 1 -> Arr(args)

C11_Step ==
  ByName(last') =>
    \A i \in DOMAIN last'.invoked :
      /\ last'.invoked[i].args = last'.rec
      /\ last'.invoked[i].detail = DerivedDetail(last'.rec)

\* C11: in trigger(name, payload), with args the normalized payload, every
\* invoked handler receives (event, ...args), and event.detail is undefined
\* when args is empty, args[0] when it has one element, and the whole list
\* when it has more.
C11_DetailDerivation == [][C11_Step]_vars

\* trigger('turned', [3, [3,4]]) reached a handler with detail [3,[3,4]] and
\* the extra arguments 3 and [3,4].
C11_Witness ==
  /\ ByName(last)
  /\ last.data = Arr(<<Num(3), Arr(<<Num(3), Num(4)>>)>>)
  /\ Len(last.invoked) > 0
  /\ last.invoked[1].detail = Arr(<<Num(3), Arr(<<Num(3), Num(4)>>)>>)
  /\ last.invoked[1].args = <<Num(3), Arr(<<Num(3), Num(4)>>)>>

\* The argument list the claims give a payload: none when it is absent, its
\* elements when it is a sequence, the value itself otherwise.
NormalizedPayload(data) ==
  CASE data = Undefined -> << >>
    [] data.t = "array" -> data.items
    [] OTHER -> <<data>>

\* C12: in trigger(name, payload) an absent payload gives no extra argument,
\* a sequence gives its elements in order, and every other value v gives the
\* one extra argument v and the detail v.
C12_PayloadNormalization ==
  ByName(last) =>
    \A i \in DOMAIN last.invoked :
      /\ last.invoked[i].args = NormalizedPayload(last.data)
      /\ (last.data # Undefined /\ last.data.t # "array") => last.invoked[i].detail = last.data

\* The handlers invoked on the node at position pos of a trigger, in order.
HandlersAt(invoked, pos) ==
  LET at == SelectSeq(invoked, LAMBDA i : i.obj[2] = pos)
  IN [k \in DOMAIN at |-> at[k].handler]

HandlersOn(invoked) == [k \in DOMAIN invoked |-> invoked[k].handler]

IsPrefix(a, b) == Len(a) <= Len(b) /\ \A k \in DOMAIN a : a[k] = b[k]

\* The handlers a dispatch walks, up to and including the first that raises.
UpToRaise(bucket) ==
  IF \E k \in DOMAIN bucket : Raises(bucket[k])
  THEN SubSeq(bucket, 1, CHOOSE k \in DOMAIN bucket :
                           Raises(bucket[k]) /\ \A j \in 1..(k - 1) : ~Raises(bucket[j]))
  ELSE bucket

C13_Step ==
  /\ (last'.op = "on" /\ ~last'.fault) =>
       \A n \in Range(nodes(last'.slot)) :
         HandlerSetNext(n, last'.key) =
           IF last'.arg \in Range(HandlerSet(n, last'.key))
           THEN HandlerSet(n, last'.key)
           ELSE Append(HandlerSet(n, last'.key), last'.arg)
  /\ (last'.op = "off" /\ ~last'.fault /\ last'.arg # NoHandler) =>
       \A n \in Range(nodes(last'.slot)) :
         HandlerSetNext(n, last'.key) =
           SelectSeq(HandlerSet(n, last'.key), LAMBDA h : h # last'.arg)
  /\ IsTrigger(last') =>
       \A pos \in DOMAIN nodes(last'.slot) :
         /\ IsPrefix(HandlersAt(last'.invoked, pos),
                     HandlerSet(nodes(last'.slot)[pos], last'.key))
         /\ ~last'.fault =>
              HandlersAt(last'.invoked, pos) = HandlerSet(nodes(last'.slot)[pos], last'.key)
  /\ IsNative(last') =>
       HandlersOn(last'.invoked) = UpToRaise(HandlerSet(last'.node, last'.key))

\* C13: within one dispatch on a node, synthetic or native, the handlers run
\* in registration order: a registration adds the handler after all those
\* registered for the name, a repeated one leaves the order as it is, a
\* removal keeps the order of the others, and a dispatch walks that order.
C13_RegistrationOrder == [][C13_Step]_vars

\* A was registered before F on both nodes and then removed from e1: the
\* dispatch ran F on e1, then A before F on e2.
C13_Witness ==
  /\ ByName(last)
  /\ nodes("h1") = <<"e1", "e2">>
  /\ HandlerSet("e1", "turned") = <<"F">>
  /\ HandlerSet("e2", "turned") = <<"A", "F">>
  /\ HandlersOn(last.invoked) = <<"F", "A", "F">>

\* The invocations before the j-th one that got the same event object, or,
\* when the flags live in the event value built ahead, all those before it.
Before(invoked, j, shared) ==
  {i \in 1..(j - 1) : shared \/ invoked[i].obj = invoked[j].obj}

ReturnedFalse(invoked, is) == \E i \in is : Returns(invoked[i].handler) = Bool(FALSE)
CalledPreventDefault(invoked, is) == \E i \in is : CallsPreventDefault(invoked[i].handler)

\* The rule of the flags for the triggers whose event argument is of one of
\* the kinds: every handler after one that returned false, on the same node,
\* is invoked, with the same event object, and sees both flags set; a flag a
\* handler sees set was set before the dispatch, by a handler that returned
\* false, or by preventDefault().
C14_Step(kinds) ==
  (IsTrigger(last') /\ last'.event.t \in kinds) =>
    LET inv == last'.invoked
        shared == last'.event.t = "evtref"
        before == IF shared THEN evt
                  ELSE [defaultPrevented |-> FALSE, propagationStopped |-> FALSE]
    IN /\ \A j \in DOMAIN inv :
            LET same == Before(inv, j, FALSE)
                all == Before(inv, j, shared)
            IN /\ ReturnedFalse(inv, same) =>
                    inv[j].isDefaultPrevented /\ inv[j].isPropagationStopped
               /\ inv[j].isPropagationStopped =>
                    before.propagationStopped \/ ReturnedFalse(inv, all)
               /\ inv[j].isDefaultPrevented =>
                    \/ before.defaultPrevented
                    \/ ReturnedFalse(inv, all)
                    \/ CalledPreventDefault(inv, all)
       /\ ~last'.fault =>
            \A pos \in DOMAIN nodes(last'.slot) :
              HandlersAt(inv, pos) = HandlerSet(nodes(last'.slot)[pos], last'.key)

\* C14 as claimed: the rule holds in every trigger.
C14_FalseSetsFlags == [][C14_Step({"string", "object", "evtref"})]_vars

\* C14 as amended: the rule holds when trigger is given a name or an event
\* value that has the four flag methods, such as one built by Event(type).
C14_FalseSetsFlagsOwnMethods == [][C14_Step({"string", "evtref"})]_vars

\* trigger('turned') over e1 and e2: on e1, A ran after F and saw both flags
\* set; on e2, F ran first and saw none.
C14_Witness ==
  /\ ByName(last)
  /\ nodes("h1") = <<"e1", "e2">>
  /\ HandlersOn(last.invoked) = <<"F", "A", "F", "A">>
  /\ last.invoked[2].isDefaultPrevented /\ last.invoked[2].isPropagationStopped
  /\ ~last.invoked[3].isDefaultPrevented /\ ~last.invoked[3].isPropagationStopped

\* The handlers a dispatch invoked that returned.
Completed(invoked) == {i \in DOMAIN invoked : ~Raises(invoked[i].handler)}

C15_Step ==
  /\ (IsTrigger(last') /\ last'.event = EvtRef) =>
       /\ evt'.defaultPrevented =
            (\/ evt.defaultPrevented
             \/ ReturnedFalse(last'.invoked, Completed(last'.invoked))
             \/ CalledPreventDefault(last'.invoked, Completed(last'.invoked)))
       /\ evt'.propagationStopped =
            (evt.propagationStopped \/ ReturnedFalse(last'.invoked, Completed(last'.invoked)))
  /\ last'.op = "Event" => ~evt'.defaultPrevented /\ ~evt'.propagationStopped
  /\ (evt # Undefined /\ last'.op # "Event") =>
       /\ evt.defaultPrevented => evt'.defaultPrevented
       /\ evt.propagationStopped => evt'.propagationStopped

\* C15: an event value built by Event(type) starts with both flags false;
\* after trigger(e, payload) isDefaultPrevented() is true exactly when it was
\* before, or an invoked handler returned false or called preventDefault(),
\* and isPropagationStopped() exactly when it was before or an invoked
\* handler returned false; no call turns a flag back to false.
C15_FlagsOfEventValue == [][C15_Step]_vars

\* trigger(e) ran P and A: e is default-prevented and not stopped.
C15_Witness ==
  /\ IsTrigger(last) /\ last.event = EvtRef
  /\ HandlersOn(last.invoked) = <<"P", "A">>
  /\ ~last.invoked[1].isDefaultPrevented /\ last.invoked[2].isDefaultPrevented
  /\ evt.defaultPrevented /\ ~evt.propagationStopped

C16_Step ==
  (IsTrigger(last') /\ last'.event.t \in {"object", "evtref"}) =>
    LET given == IF last'.event.t = "object" THEN last'.event.detail ELSE evt.detail
    IN \A j \in DOMAIN last'.invoked :
         /\ last'.invoked[j].detail =
              IF given \notin {Undefined, Null} THEN given ELSE DerivedDetail(last'.rec)
         /\ last'.invoked[j].args = last'.rec
         /\ last'.invoked[j].currentTarget = Val(last'.invoked[j].node)

\* C16: when trigger is given an event-like value, every handler registered
\* for its type receives an event whose detail is the value's own detail when
\* it has one (neither undefined nor null) and the detail derived from the
\* payload otherwise, the normalized payload as extra arguments, and the
\* node delivered to as currentTarget.
C16_EventLikeDetail == [][C16_Step]_vars

\* trigger({type: 'turned', detail: 'own'}, 3) reached e2 with detail 'own'
\* and the extra argument 3.
C16_Witness ==
  /\ IsTrigger(last) /\ last.event = Plain("turned", Val("own"))
  /\ last.data = Num(3)
  /\ Len(last.invoked) = 2
  /\ last.invoked[2].node = "e2"
  /\ last.invoked[2].detail = Val("own")
  /\ last.invoked[2].args = <<Num(3)>>
  /\ last.invoked[2].currentTarget = Val("e2")

\* C17: on a native occurrence every handler registered for (node, name) is
\* invoked once, in order, with (nativeEvent, ...payload), payload being the
\* elements of the carried detail when it is a sequence, the detail itself
\* when it is another value and nothing when there is none; a handler that
\* returns false suppresses the default action and the others still run.
C17_NativeDelivery ==
  IsNative(last) =>
    LET carried == IF last.event.class = "CustomEvent" THEN last.event.init
                   ELSE last.event.fallback
    IN /\ \A i \in DOMAIN last.invoked :
            last.invoked[i].args = NormalizedPayload(carried)
       /\ HandlersOn(last.invoked) = UpToRaise(HandlerSet(last.node, last.key))
       /\ ReturnedFalse(last.invoked, Completed(last.invoked)) => last.ret = Bool(TRUE)

C18_Step ==
  (IsTrigger(last') \/ IsNative(last')) =>
    /\ \A i \in DOMAIN last'.invoked :
         Raises(last'.invoked[i].handler) => i = Len(last'.invoked)
    /\ last'.fault =
         (last'.invoked # << >> /\ Raises(last'.invoked[Len(last'.invoked)].handler))
    /\ last'.fault => last'.ret # HandleRef(last'.slot)
    /\ UNCHANGED evVars

\* C18: a handler that raises ends the dispatch: the raise reaches the
\* caller, no handler after it on the node and no handler of a later node is
\* invoked, and the registry and the bridges stay as they are.
C18_RaiseAbortsDispatch == [][C18_Step]_vars

\* trigger('turned') over e1 and e2: X raised on e1 before A, and nothing
\* ran on e2.
C18_Witness ==
  /\ ByName(last) /\ last.fault
  /\ nodes("h1") = <<"e1", "e2">>
  /\ HandlerSet("e1", "turned") = <<"X", "A">>
  /\ HandlerSet("e2", "turned") = <<"X", "A">>
  /\ HandlersOn(last.invoked) = <<"X">>
  /\ last.invoked[1].node = "e1"

\* ------------------------------------------------------------------ handle specification
\* Two Handles: h1 made from nothing, a node or an array of two elements, h2
\* made from h1, by the constructor or by the global callable, or from e2;
\* both are used and removed while the page changes.
HandleSelectors ==
  {[kind |-> "null"], [kind |-> "node", node |-> "e1"]}
    \cup {[kind |-> "array", nodes |-> a] : a \in [1..2 -> Elements]}

NextHandles ==
  \/ \E sel \in HandleSelectors : Construct("h1", sel)
  \/ Construct("h2", [kind |-> "handle", slot |-> "h1"])
  \/ \E sel \in {[kind |-> "handle", slot |-> "h1"], [kind |-> "node", node |-> "e2"]} :
       jQueryShim("h2", sel)
  \/ \E slot \in Slots : Remove(slot)
  \/ \E slot \in Slots : AppendNode(slot, "e2")
  \/ \E slot \in Slots : AddClass(slot, "c")
  \/ \E slot \in Slots : On(slot, "click", "A")
  \/ \E slot \in Slots : Trigger(slot, "click")
  \/ \E slot \in Slots : Read(slot, "length")

SpecHandles == Init /\ [][NextHandles]_vars

\* ------------------------------------------------------------------ claims: handles
\* C19: the node list of a Handle changes only by that Handle's own
\* remove(): a Handle made from a Handle, by the constructor or by the global
\* callable, has the same nodes in the same order in a list of its own, and
\* no call on another Handle and no change of the page changes the list.
C19_NodeListIsOwn ==
  [][/\ \A s \in Slots :
          handles'[s] # handles[s] => last'.slot = s /\ last'.op \in {"new", "remove"}
     /\ (last'.op = "new" /\ last'.slot = "h2" /\ handles'["h2"] # << >>) =>
          {"h1", "h2"} \notin aliases']_vars

C20_Mutators ==
  {"on", "off", "trigger", "remove", "append", "appendTo", "prepend", "css.set",
   "attr.set", "addClass", "removeClass", "data.set", "data.merge"}

C20_Step ==
  /\ (last'.op = "remove" /\ nodes(last'.slot) # << >>) =>
       /\ \A e \in Range(elements(last'.slot)) : ParentIn(children', e) = "none"
       /\ handles'[last'.slot] = << >>
       /\ last'.ret = HandleRef(last'.slot)
       /\ ~last'.fault
  /\ (last.op = "remove" /\ last'.slot = last.slot) =>
       /\ last'.op \in C20_Mutators =>
            UNCHANGED <<handles, dataStore, bucketSets, domListeners, views, domVars>>
       /\ last'.op = "length" => last'.ret = Num(0)

\* C20: remove() on a non-empty Handle leaves every element it held without
\* a parent and the Handle with length 0, and returns the Handle; a mutator
\* chained on it changes nothing.
C20_RemoveEmptiesHandle == [][C20_Step]_vars

\* h1 held e1 and e2, e2 inside e1: after remove() neither has a parent and
\* h1 is empty.
C20_Witness ==
  /\ last.op = "remove" /\ last.slot = "h1" /\ last.changed
  /\ nodes("h1") = << >>
  /\ Parent("e1") = "none" /\ Parent("e2") = "none"
  /\ classes["e1"] = {"c"}
  /\ HandlerSet("e2", "click") = <<"A">>

\* ------------------------------------------------------------------ extend and inArray
\* Longest argument list handed to extend.
MaxArgs == 3

\* typeof value
typeofValue(value) ==
  CASE value.t = "boolean" -> "boolean"
    [] value.t = "number" -> "number"
    [] value.t = "undefined" -> "undefined"
    [] value.t = "object" -> "object"
    [] value.t = "val" /\ value.v = "null" -> "object"
    [] OTHER -> "string"

\* typeof value === 'object' && value !== null
isObject(value) == typeofValue(value) = "object" /\ value # Null

\* The own enumerable keys of a truthy source with their values: the keys
\* of a record, the indexes of a string, nothing for a number or a boolean.
ownEntries(heap, source) ==
  CASE source.t = "object" -> heap[source.id]
    [] source.t = "val" -> [i \in {"0", "1"} |-> IF i = "0" THEN Val("a") ELSE Val("b")]
    [] OTHER -> << >>

\* Mutant of assignKeys: a key the target already has is left as it is.
assignKeys_KeepExisting(m, entries) ==
  [k \in DOMAIN m \cup DOMAIN entries |-> IF k \in DOMAIN m THEN m[k] ELSE entries[k]]

\* Object.keys(source).forEach(key => { target[key] = source[key]; })
assignKeys(m, entries) ==
  [k \in DOMAIN m \cup DOMAIN entries |-> IF k \in DOMAIN entries THEN entries[k] ELSE m[k]]

\* for (let i = index; i < args.length; i += 1): a falsy source is skipped.
RECURSIVE extendFrom(_, _, _, _)
extendFrom(heap, target, args, i) ==
  IF i > Len(args) THEN heap
  ELSE IF ~Truthy(args[i]) THEN extendFrom(heap, target, args, i + 1)
  ELSE extendFrom([heap EXCEPT ![target.id] = assignKeys(@, ownEntries(heap, args[i]))],
                  target, args, i + 1)

\* extend(...args): the heap it leaves and the value it returns. Positions
\* count from 1.
extend(heap, args) ==
  IF Len(args) = 0 THEN [heap |-> Allocate(heap, Obj(NextId), EmptyRecord), ret |-> Obj(NextId)]
  ELSE LET index == IF typeofValue(args[1]) = "boolean" THEN 2 ELSE 1
           given == index <= Len(args) /\ isObject(args[index])
           target == IF given THEN args[index] ELSE Obj(NextId)
           heap1 == IF given THEN heap ELSE Allocate(heap, target, EmptyRecord)
       IN [heap |-> extendFrom(heap1, target, args, IF given THEN index + 1 ELSE index),
           ret |-> target]

\* An object literal: a new record with the keys written.
Literal(rec) ==
  /\ NextId < MaxObjects
  /\ \A k \in DOMAIN rec : rec[k].t = "object" => rec[k].id \in DOMAIN objects
  /\ objects' = Allocate(objects, Obj(NextId), rec)
  /\ last' = Call("literal", "-", "-", "-", Obj(NextId), << >>, FALSE, TRUE)
  /\ UNCHANGED <<indexes, run, listenerRegistry, aliases, evt, handles, evVars, views, domVars>>

\* $.extend(...args)
Extend(args) ==
  /\ \A i \in DOMAIN args : args[i].t = "object" => args[i].id \in DOMAIN objects
  /\ LET r == extend(objects, args)
     IN /\ r.ret = Obj(NextId) => NextId < MaxObjects
        /\ objects' = r.heap
        /\ last' = Call("extend", "-", "-", "-", r.ret, << >>, FALSE, objects' # objects)
                     @@ [args |-> args]
  /\ UNCHANGED <<indexes, run, listenerRegistry, aliases, evt, handles, evVars, views, domVars>>

\* Number.NaN, the one value that is not strictly equal to itself.
NaN == [t |-> "nan"]

\* a === b: the same kind and the same value, a record only itself.
StrictEquals(a, b) == a = b /\ a # NaN

\* Mutant of indexOfFrom: the search goes on to the last match.
RECURSIVE indexOfFrom_Last(_, _, _)
indexOfFrom_Last(array, value, i) ==
  IF i > Len(array) THEN -1
  ELSE LET later == indexOfFrom_Last(array, value, i + 1)
       IN IF later # -1 THEN later
          ELSE IF StrictEquals(array[i], value) THEN i - 1 ELSE -1

\* Array.prototype.indexOf from position i (positions count from 1, the
\* index returned from 0).
RECURSIVE indexOfFrom(_, _, _)
indexOfFrom(array, value, i) ==
  IF i > Len(array) THEN -1
  ELSE IF StrictEquals(array[i], value) THEN i - 1
  ELSE indexOfFrom(array, value, i + 1)

\* inArray(value, array)
inArray(value, array) == indexOfFrom(array, value, 1)

\* $.inArray(value, array)
InArray(value, array) ==
  /\ last' = Call("inArray", "-", "-", "-", Num(inArray(value, array)), << >>, FALSE, FALSE)
               @@ [value |-> value, array |-> array]
  /\ UNCHANGED <<indexes, run, listenerRegistry, objects, aliases, evt, handles, evVars, views, domVars>>

\* ------------------------------------------------------------------ declarative configuration
\* An entry of the configuration object; the entries come in the key order
\* of the object (Object.entries).
Entry(key, value) == [key |-> key, value |-> value]
\* A record of style properties: {display: value}.
Props(value) == [t |-> "props", display |-> value]
\* The display an inline style text declares ("" when it declares none).
styleDisplay(text) == IF text = "display:block" THEN "block" ELSE ""

\* The element state a call works on.
Dom == [attrs |-> attrs, display |-> display, classes |-> classes]

\* css(props) on the elements: style.setProperty for every key.
cssEach(d, els, props) ==
  [d EXCEPT !.display = [e \in Elements |-> IF e \in Range(els) THEN props.display ELSE @[e]]]

\* addClass(String(value)) on the elements.
addClassEach(d, els, value) ==
  [d EXCEPT !.classes = [e \in Elements |-> IF e \in Range(els) THEN @[e] \cup {value.v} ELSE @[e]]]

\* attr(key, value) on the elements: setAttribute(key, String(value)). The
\* style attribute replaces the inline style, the title attribute is the
\* one the model reads back, every other attribute is not looked at.
attrEach(d, els, key, value) ==
  CASE key = "style" ->
         [d EXCEPT !.display = [e \in Elements |->
                                  IF e \in Range(els) THEN styleDisplay(value.v) ELSE @[e]]]
    [] key = "title" ->
         [d EXCEPT !.attrs = [e \in Elements |-> IF e \in Range(els) THEN value ELSE @[e]]]
    [] OTHER -> d

\* The body of the forEach of applyAttributes for one entry.
applyEntry(d, els, entry) ==
  IF entry.value = Undefined \/ entry.value = Null THEN d
  ELSE IF entry.key = "css" /\ entry.value.t = "props" THEN cssEach(d, els, entry.value)
  ELSE IF entry.key = "class" THEN addClassEach(d, els, entry.value)
  ELSE attrEach(d, els, entry.key, entry.value)

\* applyAttributes(attributes): entries.forEach from entry i on.
RECURSIVE applyAttributes(_, _, _, _)
applyAttributes(d, els, entries, i) ==
  IF i > Len(entries) THEN d
  ELSE applyAttributes(applyEntry(d, els, entries[i]), els, entries, i + 1)

\* slot = new DOMElement(selector, attributes)
ConstructWith(slot, selector, attributes) ==
  /\ handles' = [handles EXCEPT ![slot] = normalizeNodes(selector)]
  /\ indexes' = [indexes EXCEPT ![slot] = syncIndexes(normalizeNodes(selector))]
  /\ aliases' = sharedAfter(slot, selector)
  /\ LET d == applyAttributes(Dom, SelectSeq(normalizeNodes(selector), isElementLike),
                               attributes, 1)
     IN /\ attrs' = d.attrs
        /\ display' = d.display
        /\ classes' = d.classes
  /\ last' = Call("new", slot, "-", "-", HandleRef(slot), << >>, FALSE,
                  <<attrs', display', classes'>> # <<attrs, display, classes>>)
               @@ [attributes |-> attributes]
  /\ UNCHANGED <<run, listenerRegistry, objects, evt, evVars, views, children>>

\* ------------------------------------------------------------------ specification: extend
\* The records written as literals: {a: 1} and {a: o, b: 2} for the record
\* o made first.
Literals ==
  {[k \in {"a"} |-> Num(1)], [k \in {"a", "b"} |-> IF k = "a" THEN Obj(0) ELSE Num(2)]}

\* The arguments of extend: the deep flag and the records alive, and the
\* lists with null, undefined or a string.
ExtendValues == {Bool(TRUE)} \cup {Obj(i) : i \in 0..(MaxObjects - 1)}
ExtendArgs ==
  UNION {[1..k -> ExtendValues] : k \in 0..MaxArgs}
    \cup {<<Null>>, <<Null, Obj(0)>>, <<Obj(0), Null, Obj(1)>>, <<Bool(TRUE), Null, Obj(1)>>,
          <<Undefined>>, <<Undefined, Obj(0)>>, <<Bool(FALSE), Undefined, Obj(0)>>,
          <<Val("ab")>>, <<Obj(0), Val("ab")>>}

NextExtend ==
  \/ \E rec \in Literals : Literal(rec)
  \/ \E args \in ExtendArgs : Extend(args)

SpecExtend == Init /\ [][NextExtend]_vars

\* ------------------------------------------------------------------ claims: extend
\* The arguments left once one leading boolean is taken off.
AfterFlag(args) == IF args # << >> /\ args[1].t = "boolean" THEN Tail(args) ELSE args

\* The sources of the merge: the arguments after the target, without the
\* absent ones and without the target itself (assigning a record its own
\* keys changes nothing).
SourcesOf(args, target) ==
  LET rest == AfterFlag(args)
      tail == IF rest # << >> /\ rest[1] = target THEN Tail(rest) ELSE rest
  IN SelectSeq(tail, LAMBDA v : v \notin {Undefined, Null, Bool(FALSE)} /\ v # target)

\* The positions of the sources that have the key as an own key.
Defining(heap, sources, k) == {i \in DOMAIN sources : k \in DOMAIN ownEntries(heap, sources[i])}

\* The shallow merge the call is to agree with: the target is the first
\* argument after the flag when that is a record, else a record not alive
\* before; it ends with, for every key, the value of the last source that
\* has it (the very value, a nested record by reference), else its own.
ReferenceMerge(before, after, args, ret) ==
  LET rest == AfterFlag(args)
      given == rest # << >> /\ rest[1].t = "object"
      sources == SourcesOf(args, ret)
      base == IF given THEN before[ret.id] ELSE << >>
      keys == DOMAIN base \cup UNION {DOMAIN ownEntries(before, sources[i]) : i \in DOMAIN sources}
  IN /\ ret.t = "object"
     /\ IF given THEN ret = rest[1] ELSE ret.id \notin DOMAIN before
     /\ DOMAIN after[ret.id] = keys
     /\ \A k \in keys :
          LET is == Defining(before, sources, k)
          IN after[ret.id][k] =
               IF is = {} THEN base[k]
               ELSE ownEntries(before, sources[CHOOSE i \in is : \A j \in is : j <= i])[k]
     /\ \A i \in DOMAIN before \ {ret.id} : after[i] = before[i]
     /\ DOMAIN after = DOMAIN before \cup {ret.id}

\* C21: every extend call agrees with the shallow merge: one leading
\* boolean is taken off and ignored, the first argument left is the target
\* when it is a record and a new empty record is the target otherwise, the
\* own keys of each source are assigned left to right so that the last
\* source with a key wins, nested records are shared by reference, the
\* target itself is returned and no other record is changed.
C21_Step ==
  last'.op = "extend" => ReferenceMerge(objects, objects', last'.args, last'.ret)

C21_ExtendIsShallowMerge == [][C21_Step]_vars

\* extend(true, {a: 1}, {a: o, b: 2}) returned its target with a the
\* record o of the last source and b 2, and the source is as it was.
C21_Witness ==
  /\ last.op = "extend"
  /\ Len(last.args) = 3
  /\ last.args[1] = Bool(TRUE)
  /\ last.args[2] = last.ret
  /\ last.args[3].t = "object" /\ last.args[3] # last.ret
  /\ objects[last.args[3].id] = [k \in {"a", "b"} |-> IF k = "a" THEN Obj(0) ELSE Num(2)]
  /\ objects[last.ret.id] = objects[last.args[3].id]
  /\ last.ret # Obj(0)

\* ------------------------------------------------------------------ specification: inArray
\* The number 1, the string "1", NaN and a record.
ArrayValues == {Num(1), Val("1"), NaN, Obj(0)}
Arrays == UNION {[1..k -> ArrayValues] : k \in 0..MaxArgs}

NextInArray == \E value \in ArrayValues, array \in Arrays : InArray(value, array)

SpecInArray == Init /\ [][NextInArray]_vars

\* ------------------------------------------------------------------ claims: inArray
\* The indexes (from 0) at which the array holds a value strictly equal to
\* the one looked for.
Matches(value, array) ==
  {i \in 0..(Len(array) - 1) : array[i + 1] = value /\ value # NaN}

\* C22: inArray(value, sequence) returns the smallest index whose element
\* strictly equals the value, and -1 exactly when no element does.
C22_InArrayFirstIndex ==
  last.op = "inArray" =>
    LET ms == Matches(last.value, last.array)
    IN /\ last.ret.n = -1 <=> ms = {}
       /\ ms # {} => last.ret.n \in ms /\ \A i \in ms : last.ret.n <= i

\* The string "1" was looked for in [1, "1", "1"]: index 1, the first of two
\* matches, the number 1 before them not being one.
C22_Witness ==
  /\ last.op = "inArray"
  /\ last.value = Val("1")
  /\ last.array = <<Num(1), Val("1"), Val("1")>>
  /\ last.ret = Num(1)

\* ------------------------------------------------------------------ specification: scalar reads
\* Handles over one or two nodes, the window among them, first or alone.
ReadSelectors ==
  {[kind |-> "node", node |-> "e1"], [kind |-> "node", node |-> "win"],
   [kind |-> "array", nodes |-> <<"e1", "e2">>], [kind |-> "array", nodes |-> <<"e2", "e1">>],
   [kind |-> "array", nodes |-> <<"win", "e1">>]}

NextReads ==
  \/ \E sel \in ReadSelectors : Construct("h1", sel)
  \/ AttrSet("h1", "t1")
  \/ Hide("h1")
  \/ DataSet("h1", "k", "v1")
  \/ \E getter \in Getters : Read("h1", getter)
  \/ DataGet("h1", "k")
  \/ DataView("h1")

SpecReads == Init /\ [][NextReads]_vars

\* ------------------------------------------------------------------ claims: scalar reads
ScalarReads == {"css.get", "attr.get", "width", "height", "offset", "data.get", "data.view"}

\* What a scalar read gives when it addresses the node n and nothing else:
\* the node's own style, attribute, box and data, and the documented default
\* where the node has no such thing (the window has no style or attribute).
ReadOfNode(call, n) ==
  CASE call.op = "css.get" -> IF n \in Elements THEN Val(computedDisplay(n)) ELSE Val("")
    [] call.op = "attr.get" ->
         IF n \in Elements /\ ~Nullish(attrs[n]) THEN attrs[n] ELSE Undefined
    [] call.op = "width" -> Num(IF n \in Elements THEN offsetWidth(n) ELSE 0)
    [] call.op = "height" -> Num(IF n \in Elements THEN offsetHeight(n) ELSE 0)
    [] call.op = "offset" -> IF n \in Elements /\ Rendered(n) THEN Point(10, 20) ELSE Point(0, 0)
    [] call.op = "data.get" -> Stored(dataStore, n, call.key)
    [] call.op = "data.view" -> MapGet(dataStore[n], DATA_PROXY_KEY)

\* C23: every scalar read (css(name), attr(name), width(), height(),
\* offset(), data() and data(key)) on a Handle that is not empty addresses
\* the node at position 0 of its node list and no other node, whatever kinds
\* of node the Handle holds.
C23_ReadsAddressFirstNode ==
  (last.op \in ScalarReads /\ nodes(last.slot) # << >>) =>
    last.ret = ReadOfNode(last, nodes(last.slot)[1])

\* ------------------------------------------------------------------ specification: configuration
\* The entries a configuration object is written with, at most one per key.
ConfigEntries ==
  {Entry("css", Props("none")), Entry("css", Undefined), Entry("class", Val("c")),
   Entry("style", Val("display:block")), Entry("title", Val("t1"))}
ConfigKeys == {"css", "class", "style", "title"}

\* The configuration objects: every choice of keys in every key order.
Configs ==
  {c \in UNION {[1..k -> ConfigEntries] : k \in 0..Cardinality(ConfigKeys)} :
     \A i, j \in DOMAIN c : i # j => c[i].key # c[j].key}

NextConfig ==
  \/ \E sel \in {[kind |-> "node", node |-> "e1"], [kind |-> "array", nodes |-> <<"e1", "e2">>]},
        c \in Configs : ConstructWith("h1", sel, c)
  \/ Show("h1")
  \/ RemoveClass("h1", "c")

SpecConfig == Init /\ [][NextConfig]_vars

\* ------------------------------------------------------------------ claims: configuration
\* The entries in the order the claim gives: css, class, then the rest.
CssFirst(entries) ==
  SelectSeq(entries, LAMBDA x : x.key = "css") \o SelectSeq(entries, LAMBDA x : x.key = "class")
    \o SelectSeq(entries, LAMBDA x : x.key \notin {"css", "class"})

\* C24: a Handle constructed with a configuration object has its entries
\* applied in a fixed order whatever the key order of the object: the css
\* entry first, then the class entry, then every other entry through the
\* attribute setter, so that a style attribute is applied after css.
C24_Step ==
  (last'.op = "new" /\ "attributes" \in DOMAIN last') =>
    [attrs |-> attrs', display |-> display', classes |-> classes']
      = applyAttributes(Dom, SelectSeq(handles'[last'.slot], isElementLike),
                        CssFirst(last'.attributes), 1)

C24_ConfigOrderFixed == [][C24_Step]_vars

\* ------------------------------------------------------------------ specification: insertion
\* The node lists of the Handles inserted and inserted into.
InsertLists == {<<"e1">>, <<"e2">>, <<"e1", "e2">>}

NextInsert ==
  \/ \E sel \in {[kind |-> "null"]} \cup {[kind |-> "array", nodes |-> l] : l \in InsertLists} :
       Construct("h1", sel)
  \/ \E src \in InsertLists : AppendHandle("h1", src)
  \/ \E src \in InsertLists : PrependHandle("h1", src)
  \/ \E target \in InsertLists : AppendTo("h1", target)
  \/ \E child \in Elements : AppendNode("h1", child)
  \/ \E child \in Elements : PrependNode("h1", child)
  \/ Remove("h1")

SpecInsert == Init /\ [][NextInsert]_vars

\* ------------------------------------------------------------------ claims: insertion
IsPageNode(c) == c.t = "el"
IsNewNode(c) == c.t # "el"

\* Every target element got one clone of every source element, and no node
\* of the page changed place.
ClonedInto(targets, srcs) ==
  /\ \A p \in Containers : SelectSeq(children'[p], IsPageNode) = SelectSeq(children[p], IsPageNode)
  /\ \A t, e \in Elements :
       Count(children'[t], Clone(e)) - Count(children[t], Clone(e)) = Count(targets, t) * Count(srcs, e)
  /\ children'["body"] = children["body"]

\* The literal node is in one place at most, no copy of it was made, and
\* when the call went through over at least one target it is the child of
\* the last target.
MovedInto(targets, child, fault) ==
  /\ Cardinality({p \in Containers : El(child) \in Range(children'[p])}) <= 1
  /\ \A p \in Containers :
       /\ Count(children'[p], El(child)) <= 1
       /\ SelectSeq(children'[p], IsNewNode) = SelectSeq(children[p], IsNewNode)
  /\ (~fault /\ targets # << >>) => ParentIn(children', child) = targets[Len(targets)]

\* C25: append, prepend and appendTo with a Handle as the content never move
\* the source nodes: every target element receives one clone per element of
\* the source Handle and the source nodes keep the parent they had; a
\* literal node is moved and ends as the child of exactly one target.
C25_Step ==
  /\ (last'.op \in {"append", "prepend"} /\ last'.key = "handle") =>
       ClonedInto(elements(last'.slot), SelectSeq(last'.srcs, isElementLike))
  /\ last'.op = "appendTo" =>
       ClonedInto(SelectSeq(last'.targets, isElementLike), elements(last'.slot))
  /\ (last'.op \in {"append", "prepend"} /\ last'.key = "node") =>
       MovedInto(elements(last'.slot), last'.arg, last'.fault)

C25_HandlesAreCloned == [][C25_Step]_vars

\* e2 was appended through a Handle to the Handle over e1 and e2: each of the
\* two has a clone of e2 as its child and e2 is still a child of the body.
C25_Witness ==
  /\ last.op = "append" /\ last.key = "handle"
  /\ last.srcs = <<"e2">>
  /\ nodes("h1") = <<"e1", "e2">>
  /\ children["e1"] = <<Clone("e2")>>
  /\ children["e2"] = <<Clone("e2")>>
  /\ Parent("e2") = "body"

\* ------------------------------------------------------------------ specification: internal-state slot
SlotKeys == {"f", "k", "get"}

NextSlot ==
  \/ \E sel \in {[kind |-> "node", node |-> "e1"], [kind |-> "array", nodes |-> <<"e2", "e1">>]} :
       Construct("h1", sel)
  \/ DataView("h1")
  \/ \E view \in Proxies, key \in SlotKeys : LiveGet(view, key)
  \/ \E view \in Proxies : LiveSet(view, "f", "v1")
  \/ \E view \in Proxies : LiveDelete(view, "f")
  \/ DataGet("h1", "f")
  \/ Literal([k \in {"a"} |-> Num(1)])
  \/ \E i, j \in 0..(MaxObjects - 1) : Extend(<<Obj(i), Obj(j)>>)

SpecSlot == Init /\ [][NextSlot]_vars

\* ------------------------------------------------------------------ claims: internal-state slot
\* A live-view read of `f` that finds no `f` returns a record made for it,
\* empty, and stores it; a read of `f` that finds one returns the stored
\* value and makes nothing.
SlotInitialises ==
  /\ (last'.op = "live.get" /\ last'.key = "f" /\ ~MapHas(dataStore[last'.node], "f")) =>
       /\ last'.ret.t = "object"
       /\ last'.ret.id \notin DOMAIN objects
       /\ objects' = Allocate(objects, last'.ret, << >>)
       /\ Stored(dataStore', last'.node, "f") = last'.ret
  /\ (last'.op \in {"live.get", "data.get"} /\ last'.key = "f"
        /\ last'.node # "-" /\ last'.node \in DOMAIN dataStore
        /\ MapHas(dataStore[last'.node], "f")) =>
       /\ last'.ret = Stored(dataStore, last'.node, "f")
       /\ UNCHANGED <<dataStore, objects>>
  /\ last'.op = "extend" => UNCHANGED dataStore

\* A live-view read of a key of K that the node's Map does not hold returns
\* undefined and stores nothing.
AbsentReadsUndefined(K) ==
  (last'.op = "live.get" /\ last'.key \in K /\ ~MapHas(dataStore[last'.node], last'.key)) =>
    /\ last'.ret = Undefined
    /\ UNCHANGED <<dataStore, objects>>

\* C26 as stated: reading `f` through the live view before it was written
\* returns an empty record and stores it, every later read of `f` returns
\* that record with the fields assigned on it, and reading any other
\* never-written key returns undefined and stores nothing.
C26_SlotAutoInitEveryKey ==
  [][SlotInitialises /\ AbsentReadsUndefined(SlotKeys \ {"f"})]_vars

\* C26 as amended: the same, for every other never-written key except the
\* accessor names get, set and has of the live view.
C26_SlotAutoInit ==
  [][SlotInitialises /\ AbsentReadsUndefined(SlotKeys \ ({"f"} \cup AccessorNames))]_vars

\* data('f') returned the record a live-view read had made, after fields
\* were assigned on it by extend.
C26_Witness ==
  /\ last.op = "data.get" /\ last.key = "f"
  /\ last.ret.t = "object"
  /\ last.ret.id \in DOMAIN objects
  /\ objects[last.ret.id] = [k \in {"a"} |-> Num(1)]
  /\ \E i \in DOMAIN objects : i # last.ret.id

\* ------------------------------------------------------------------ claims: data and events
\* What data(key) and the live view show of a node: its keys and their values.
Observable(ds, n) == [k \in ownKeys(ds, n) |-> ds[n][k]]

\* C27: the data store and the event subsystem are independent for every
\* node: on, off and trigger change no key or value that data(key) or the
\* live view (its key enumeration too) shows, and no data(key, value),
\* data(record) or live-view write or delete of a string key changes the
\* handlers registered or the number of native bridges installed.
C27_Step ==
  /\ last'.op \in {"on", "off", "trigger"} =>
       \A n \in Nodes : Observable(dataStore', n) = Observable(dataStore, n)
  /\ last'.op \in {"data.set", "data.merge", "live.set", "live.delete"} =>
       \A n \in Nodes, ev \in EventNames :
         /\ HandlerSetNext(n, ev) = HandlerSet(n, ev)
         /\ BridgeCountNext(n, ev) = BridgeCount(n, ev)

C27_DataAndEventsIndependent == [][C27_Step]_vars

\* ------------------------------------------------------------------ specification: per-node state
\* One Handle, made again after remove(), over e1 or over e1 and e2; data,
\* handlers of two names, removal of handlers and of the nodes.
NextKeep ==
  \/ \E sel \in {[kind |-> "node", node |-> "e1"], [kind |-> "array", nodes |-> <<"e1", "e2">>]} :
       Construct("h1", sel)
  \/ DataSet("h1", "k", "v1")
  \/ DataGet("h1", "k")
  \/ DataView("h1")
  \/ \E ev \in EventNames : On("h1", ev, "A")
  \/ \E ev \in EventNames, hd \in {"A", NoHandler} : Off("h1", ev, hd)
  \/ \E ev \in EventNames : Trigger("h1", ev)
  \/ Remove("h1")

SpecKeep == Init /\ [][NextKeep]_vars

\* ------------------------------------------------------------------ claims: per-node state
\* The data a node holds for its users: every key but the event store's.
UserData(ds, n) == [k \in ownKeys(ds, n) \ {EVENT_STORE_KEY} |-> ds[n][k]]

\* The node keeps its Map, its cached live view and its event store.
StateKept(n) ==
  /\ n \in DOMAIN dataStore => n \in DOMAIN dataStore'
  /\ UserData(dataStore', n) = UserData(dataStore, n)
  /\ Stored(dataStore', n, DATA_PROXY_KEY) = Stored(dataStore, n, DATA_PROXY_KEY)
  /\ views'[n] = views[n]
  /\ isStore(Stored(dataStore, n, EVENT_STORE_KEY)) => isStore(Stored(dataStore', n, EVENT_STORE_KEY))

HandlersKept(n, names) ==
  \A ev \in names :
    /\ HandlerSetNext(n, ev) = HandlerSet(n, ev)
    /\ BridgeCountNext(n, ev) = BridgeCount(n, ev)

\* C28: the facade never destroys a node's state: remove() on a Handle
\* leaves the data of every node, its live view and its handlers as they
\* were, and off leaves the data, the live view and the handlers of every
\* other name as they were, also when it empties a handler set; a Handle
\* made over the node afterwards finds them.
C28_Step ==
  /\ last'.op = "remove" => \A n \in Nodes : StateKept(n) /\ HandlersKept(n, EventNames)
  /\ last'.op = "off" => \A n \in Nodes : StateKept(n) /\ HandlersKept(n, EventNames \ {last'.key})

C28_StateOutlivesHandle == [][C28_Step]_vars

\* off('click') emptied the handler set of e1, which a Handle made again
\* after remove() wraps: e1 is out of the document and still has its data,
\* its live view and its handler for 'turned'.
C28_Witness ==
  /\ last.op = "off" /\ last.key = "click" /\ last.changed
  /\ nodes("h1") = <<"e1">>
  /\ Parent("e1") = "none"
  /\ HandlerSet("e1", "click") = << >>
  /\ HandlerSet("e1", "turned") = <<"A">>
  /\ BridgeCount("e1", "turned") = 1
  /\ Stored(dataStore, "e1", "k") = Val("v1")
  /\ views["e1"] # {}

\* ------------------------------------------------------------------ TurnInstance
\* The names of TurnEventName, and the slot of the Handle the wrappers are
\* made over (toDOM(target)).
TurnEventNames == {"start", "turning", "turn", "turned", "first", "last"}
TurnSlot == "h1"
WrapperRef(w) == [t |-> "instance", w |-> w]

\* args[i - 1], undefined past the end (array destructuring)
At(args, i) == IF i \in DOMAIN args THEN args[i] ELSE Undefined

\* The options record the engine passes with 'start', and the values the
\* handlers receive: {page, corner} and {page, view}.
Opts(page) == [t |-> "opts", page |-> page]
StartPayload(page, corner) == [t |-> "payload", page |-> page, corner |-> corner]
ViewPayload(page, view) == [t |-> "payload", page |-> page, view |-> view]

\* opts.page (opts is the record the engine passes)
pageOf(opts) == IF opts.t = "opts" THEN opts.page ELSE Undefined

\* Mutant of eventAdapters: every event hands over the first argument.
eventAdapters_First(event, args) ==
  CASE event = "start" -> At(args, 1)
    [] event \in {"turning", "turned"} -> At(args, 1)
    [] event = "turn" -> At(args, 1)
    [] event \in {"first", "last"} -> Undefined

\* eventAdapters[event](args)
eventAdapters(event, args) ==
  CASE event = "start" -> StartPayload(pageOf(At(args, 1)), At(args, 2))
    [] event \in {"turning", "turned"} -> ViewPayload(At(args, 1), At(args, 2))
    [] event = "turn" -> At(args, 1)
    [] event \in {"first", "last"} -> Undefined

\* The function on() makes for a handler. A wrapper holds at most one for
\* an event and a handler, and it is registered under that event only.
Callback(w, handler) ==
  CASE w = "w1" /\ handler = "A" -> "w1.A"
    [] w = "w1" /\ handler = "B" -> "w1.B"
    [] w = "w2" /\ handler = "A" -> "w2.A"
    [] w = "w2" /\ handler = "B" -> "w2.B"

Callbacks == {Callback(w, h) : w \in Wrappers, h \in Handlers}
handlerOf(callback) == CHOOSE h \in Handlers : \E w \in Wrappers : Callback(w, h) = callback
wrapperOf(callback) == CHOOSE w \in Wrappers : \E h \in Handlers : Callback(w, h) = callback

\* The body of the callback made for (event, handler), called with the
\* synthetic event and args: the call of the handler it makes.
callback(event, handler, args) ==
  IF event \notin TurnEventNames THEN [handler |-> handler, args |-> <<At(args, 1)>>]
  ELSE LET payload == eventAdapters(event, args)
       IN IF payload = Undefined THEN [handler |-> handler, args |-> << >>]
          ELSE [handler |-> handler, args |-> <<payload>>]

\* The handler calls made by the callbacks a dispatch invoked, in order.
handlerCalls(event, invoked) ==
  [i \in DOMAIN invoked |->
     callback(event, handlerOf(invoked[i].handler), invoked[i].args)
       @@ [w |-> wrapperOf(invoked[i].handler)]]

ensureListenerBucket(reg, event) ==
  IF MapHas(reg, event) THEN reg ELSE MapSet(reg, event, << >>)

\* bucket.has(key), bucket?.get(key)
subscribed(reg, event, handler) == MapHas(reg, event) /\ MapHas(reg[event], handler)

\* bucket.set(key, callback)
bucketSet(reg, event, handler, cb) == [reg EXCEPT ![event] = MapSet(@, handler, cb)]

\* Mutant of bucketDelete: the handler stays in the registry.
bucketDelete_Keeps(reg, event, handler) == reg

\* bucket?.delete(key)
bucketDelete(reg, event, handler) == [reg EXCEPT ![event] = MapDelete(@, handler)]

\* createTurn(target) / useTurn(target): the Handle is made and wrapped.
CreateTurn(selector) ==
  /\ nodes(TurnSlot) = << >>
  /\ handles' = [handles EXCEPT ![TurnSlot] = selector]
  /\ indexes' = [indexes EXCEPT ![TurnSlot] = syncIndexes(selector)]
  /\ listenerRegistry' = [w \in Wrappers |-> << >>]
  /\ last' = Call("createTurn", TurnSlot, "-", "-", WrapperRef("w1"), << >>, FALSE, FALSE)
  /\ UNCHANGED <<run, objects, aliases, evt, evVars, views, domVars>>

\* instance.on(event, handler)
TurnOn(w, event, handler) ==
  /\ nodes(TurnSlot) # << >>
  /\ LET reg == ensureListenerBucket(listenerRegistry[w], event)
     IN IF subscribed(reg, event, handler)
        THEN /\ listenerRegistry' = [listenerRegistry EXCEPT ![w] = reg]
             /\ UNCHANGED evVars
             /\ last' = Call("turn.on", TurnSlot, event, handler, WrapperRef(w), << >>,
                             FALSE, FALSE)
                        @@ [w |-> w, had |-> MapHas(listenerRegistry[w], event)]
        ELSE /\ CanAllocate(nodes(TurnSlot), event)
             /\ LET x == onEach(World, nodes(TurnSlot), event, Callback(w, handler))
                IN /\ listenerRegistry' =
                        [listenerRegistry EXCEPT
                           ![w] = bucketSet(reg, event, handler, Callback(w, handler))]
                   /\ Commit(x)
                   /\ last' = Call("turn.on", TurnSlot, event, handler,
                                   IF x.fault THEN Undefined ELSE WrapperRef(w), << >>,
                                   x.fault, Changed(x))
                              @@ [w |-> w, had |-> MapHas(listenerRegistry[w], event)]
  /\ UNCHANGED <<indexes, run, objects, aliases, evt, handles, views, domVars>>

\* instance.off(event, handler)
TurnOff(w, event, handler) ==
  /\ nodes(TurnSlot) # << >>
  /\ LET reg == listenerRegistry[w]
     IN IF ~subscribed(reg, event, handler)
        THEN /\ UNCHANGED <<listenerRegistry, evVars>>
             /\ last' = Call("turn.off", TurnSlot, event, handler, WrapperRef(w), << >>,
                             FALSE, FALSE) @@ [w |-> w]
        ELSE LET x == offEach(World, nodes(TurnSlot), event, reg[event][handler])
             IN /\ listenerRegistry' =
                     [listenerRegistry EXCEPT
                        ![w] = IF x.fault THEN reg ELSE bucketDelete(reg, event, handler)]
                /\ Commit(x)
                /\ last' = Call("turn.off", TurnSlot, event, handler,
                                IF x.fault THEN Undefined ELSE WrapperRef(w), << >>,
                                x.fault, Changed(x)) @@ [w |-> w]
  /\ UNCHANGED <<indexes, run, objects, aliases, evt, handles, views, domVars>>

\* The engine reports an occurrence: element.trigger(event, args).
Emit(event, data) ==
  /\ nodes(TurnSlot) # << >>
  /\ LET list == toArgsArray(data)
         d == triggerFrom(Dispatch0, nodes(TurnSlot), 1, Name(event), list,
                          toDetailValue(list))
     IN last' = [Call("emit", TurnSlot, event, "-",
                      IF d.fault THEN Undefined ELSE HandleRef(TurnSlot),
                      d.invoked, d.fault, FALSE)
                   EXCEPT !.rec = list]
                @@ [data |-> data, calls |-> handlerCalls(event, d.invoked)]
  /\ UNCHANGED <<indexes, run, listenerRegistry, objects, handles, aliases, evt, evVars, views, domVars>>

\* ------------------------------------------------------------------ specification: TurnInstance
\* The data the engine hands to trigger for each event: the options record
\* and the corner for start, the page and the view for turning and turned,
\* the page for turn, nothing for first and last.
Pages == {1, 2}
viewOf(page) == Arr(<<Num(page), Num(page + 1)>>)
EngineData(event) ==
  CASE event = "start" -> {Arr(<<Opts(Num(p)), Val(c)>>) : p \in Pages, c \in {"tl", "br"}}
    [] event \in {"turning", "turned"} -> {Arr(<<Num(p), viewOf(p)>>) : p \in Pages}
    [] event = "turn" -> {Arr(<<Num(p)>>) : p \in Pages}
    [] event \in {"first", "last"} -> {Undefined}

\* The subscriptions made: handler A through the first wrapper for every
\* event, and for 'turned' handler B and the second wrapper as well.
Subscriptions ==
  {<<"w1", e, "A">> : e \in TurnEventNames} \cup {<<"w1", "turned", "B">>, <<"w2", "turned", "A">>}

\* The events handlers are registered for in one behaviour.
MaxEvents == 2
Registered == UNION {DOMAIN listenerRegistry[w] : w \in Wrappers}

NextTurn ==
  \/ CreateTurn(<<"e1">>)
  \/ \E s \in Subscriptions :
       /\ Cardinality(Registered \cup {s[2]}) <= MaxEvents
       /\ TurnOn(s[1], s[2], s[3])
  \/ \E s \in Subscriptions : TurnOff(s[1], s[2], s[3])
  \/ \E e \in TurnEventNames : \E data \in EngineData(e) : Emit(e, data)

SpecTurn == Init /\ [][NextTurn]_vars

\* The callback of handler h of wrapper w is a member of the handler set
\* the wrapped node holds for the event.
Listening(w, event, h) == Callback(w, h) \in Range(HandlerSet("e1", event))
ListeningNext(w, event, h) == Callback(w, h) \in Range(HandlerSetNext("e1", event))

\* The calls an emission made to handler h on behalf of wrapper w.
CallsTo(calls, w, h) == {i \in DOMAIN calls : calls[i].w = w /\ calls[i].handler = h}

\* What the documentation gives a handler of the event, from the data the
\* engine handed to trigger.
DocumentedArgs(event, data) ==
  CASE event = "start" ->
         <<[t |-> "payload", page |-> data.items[1].page, corner |-> data.items[2]]>>
    [] event \in {"turning", "turned"} ->
         <<[t |-> "payload", page |-> data.items[1], view |-> data.items[2]]>>
    [] event = "turn" -> <<data.items[1]>>
    [] event \in {"first", "last"} -> << >>

\* C29: at every occurrence the engine reports on the wrapped element, a
\* handler registered with TurnInstance.on for that event is called
\* exactly once for the wrapper it was registered with, and with the
\* documented payload built from the engine's trigger arguments: {page,
\* view} for turning and turned, the page for turn, {page, corner} for
\* start, no argument for first and last; it is never handed the event
\* object or the raw argument list.
C29_Step ==
  last'.op = "emit" =>
    /\ ~last'.fault
    /\ \A w \in Wrappers : \A h \in Handlers :
         Cardinality(CallsTo(last'.calls, w, h)) =
           IF subscribed(listenerRegistry[w], last'.key, h) THEN 1 ELSE 0
    /\ \A i \in DOMAIN last'.calls :
         last'.calls[i].args = DocumentedArgs(last'.key, last'.data)

Times(set, cb) == Cardinality({i \in DOMAIN set : set[i] = cb})

\* The handler sets of the wrapped node are as they were, but for what
\* the call did with the callback cb under the event.
OthersKept(event, cb) ==
  /\ \A ev \in TurnEventNames \ {event} : HandlerSetNext("e1", ev) = HandlerSet("e1", ev)
  /\ SetDelete(HandlerSetNext("e1", event), cb) = SetDelete(HandlerSet("e1", event), cb)

\* C30: for one wrapper, on(event, h) leaves h subscribed exactly once
\* however often it is called, and the first time also after an off;
\* off(event, h) leaves h unsubscribed and every other handler
\* subscribed as it was, and changes nothing when h was not subscribed;
\* an occurrence calls exactly the handlers subscribed at that time.
C30_Step ==
  /\ last'.op = "turn.on" =>
       /\ Times(HandlerSetNext("e1", last'.key), Callback(last'.w, last'.arg)) = 1
       /\ subscribed(listenerRegistry'[last'.w], last'.key, last'.arg)
       /\ Listening(last'.w, last'.key, last'.arg) => UNCHANGED evVars
       /\ OthersKept(last'.key, Callback(last'.w, last'.arg))
  /\ last'.op = "turn.off" =>
       /\ ~ListeningNext(last'.w, last'.key, last'.arg)
       /\ ~subscribed(listenerRegistry'[last'.w], last'.key, last'.arg)
       /\ ~Listening(last'.w, last'.key, last'.arg) => UNCHANGED <<evVars, listenerRegistry>>
       /\ OthersKept(last'.key, Callback(last'.w, last'.arg))
  /\ last'.op = "emit" =>
       \A w \in Wrappers : \A h \in Handlers :
         (CallsTo(last'.calls, w, h) # {}) <=> Listening(w, last'.key, h)

C30_SubscriptionLifecycle == [][C30_Step]_vars

\* Handler A was subscribed for 'first', unsubscribed, and subscribed
\* again by the call made last: the wrapper already held a bucket for the
\* event, the call changed the node's handler set, and A is in it once.
C30_Witness ==
  /\ last.op = "turn.on" /\ last.key = "first" /\ last.arg = "A" /\ last.w = "w1"
  /\ last.had /\ last.changed
  /\ HandlerSet("e1", "first") = <<"w1.A">>

\* ------------------------------------------------------------------ delivery, step by step
\* bucket.forEach walks the Set itself, not a copy: a member deleted before
\* it is reached is passed over, a member added during the walk is reached
\* at the end, and a member deleted and added again is a new entry at the
\* end. `run` holds the walk in progress: the node, the entries of the
\* walked Set still ahead (remaining), and whether the walked Set is still
\* the one store.buckets holds for the name (attached).

\* What a handler does when it is called, to the node it is called on and
\* for the name being delivered: a list of on and off calls.
OnCall(handler) == [op |-> "on", handler |-> handler]
OffCall(handler) == [op |-> "off", handler |-> handler]
Script(handler) ==
  CASE handler = "R" -> <<OnCall("G")>>
    [] handler = "S" -> <<OffCall("S"), OnCall("S")>>
    [] handler = "C" -> <<OffCall(NoHandler)>>
    [] handler = "D" -> <<OffCall("A")>>
    [] OTHER -> << >>

\* store.buckets.get(event) is a Set
hasBucket(ds, node, event) ==
  LET cell == getEventStore(ds, node)
  IN cell # Undefined /\ isStore(cell) /\ MapHas(cell.buckets, event)

bucketOf(ds, node, event) == getEventStore(ds, node).buckets[event]

\* Mutant of walkAfter: the walk goes over a copy made when it began.
walkAfter_Copy(st, node, event, call, w1) ==
  [w |-> w1, remaining |-> st.remaining,
   attached |-> /\ st.attached
                /\ hasBucket(w1.ds, node, event)
                /\ bucketOf(w1.ds, node, event) = bucketOf(st.w.ds, node, event)]

\* The walk after a call of on or off made by the running handler took
\* the state from st.w to w1.
walkAfter(st, node, event, call, w1) ==
  LET stays == /\ st.attached
               /\ hasBucket(w1.ds, node, event)
               /\ bucketOf(w1.ds, node, event) = bucketOf(st.w.ds, node, event)
  IN [w |-> w1,
      attached |-> stays,
      remaining |->
        IF ~st.attached THEN st.remaining
        ELSE IF call.op = "on"
        THEN IF call.handler \in Range(st.w.sets[bucketOf(st.w.ds, node, event)])
             THEN st.remaining                        \* bucket.add of a member
             ELSE Append(st.remaining, call.handler)  \* bucket.add
        ELSE IF call.handler = NoHandler THEN st.remaining  \* buckets.delete(event)
        ELSE SetDelete(st.remaining, call.handler)]   \* bucket.delete(handler)

\* One call of on or off made by the running handler.
callOn(st, node, event, call) ==
  CHOOSE r \in {walkAfter(st, node, event, call, w1) :
                  w1 \in {IF call.op = "on" THEN onNode(st.w, node, event, call.handler)
                          ELSE offNode(st.w, node, event, call.handler)}} : TRUE

RECURSIVE runScript(_, _, _, _)
runScript(st, node, event, calls) ==
  IF calls = << >> THEN st
  ELSE CHOOSE r \in {runScript(x, node, event, Tail(calls)) :
                       x \in {callOn(st, node, event, Head(calls))}} : TRUE

\* trigger(name) begins: nodes.forEach is about to take the first node.
Begin(slot, event) ==
  /\ ~run.active
  /\ run' = [active |-> TRUE, kind |-> "trigger", event |-> event, queue |-> nodes(slot),
             node |-> "-", remaining |-> << >>, attached |-> FALSE, calls |-> 0]
  /\ last' = Call("begin", slot, event, "-", Undefined, << >>, FALSE, FALSE)
  /\ UNCHANGED <<indexes, listenerRegistry, objects, handles, aliases, evt, evVars, views, domVars>>

\* A native occurrence begins: the DOM takes the listeners installed for
\* the name at that time.
NativeBegin(node, event) ==
  /\ ~run.active
  /\ run' = [active |-> TRUE, kind |-> "native", event |-> event,
             queue |-> SelectSeq(domListeners[node], LAMBDA l : l[1] = event),
             node |-> node, remaining |-> << >>, attached |-> FALSE, calls |-> 0]
  /\ last' = [Call("native.begin", "-", event, "-", Undefined, << >>, FALSE, FALSE)
                EXCEPT !.node = node]
  /\ UNCHANGED <<indexes, listenerRegistry, objects, handles, aliases, evt, evVars, views, domVars>>

\* The walk of one Set is over: the next node of the Handle, or the next
\* listener still installed, or the end of the dispatch.
Advance ==
  /\ run.active /\ run.remaining = << >>
  /\ IF run.queue = << >>
     THEN /\ run' = Idle
          /\ last' = Call("end", "-", run.event, "-", Undefined, << >>, FALSE, FALSE)
     ELSE /\ last' = Call("next", "-", run.event, "-", Undefined, << >>, FALSE, FALSE)
          /\ IF run.kind = "trigger"
             THEN LET node == Head(run.queue)
                      has == hasBucket(dataStore, node, run.event)
                  IN run' = [run EXCEPT
                       !.queue = Tail(@), !.node = node,
                       !.remaining = IF has THEN bucketSets[bucketOf(dataStore, node, run.event)]
                                     ELSE << >>,
                       !.attached = has]
             ELSE LET l == Head(run.queue)
                      installed == l \in Range(domListeners[run.node])
                  IN run' = [run EXCEPT
                       !.queue = Tail(@),
                       !.remaining = IF installed THEN bucketSets[l[2]] ELSE << >>,
                       !.attached = /\ installed
                                    /\ hasBucket(dataStore, run.node, run.event)
                                    /\ bucketOf(dataStore, run.node, run.event) = l[2]]
  /\ UNCHANGED <<indexes, listenerRegistry, objects, handles, aliases, evt, evVars, views, domVars>>

\* forEach calls the next entry of the walked Set; the handler runs its
\* calls of on and off and returns.
Visit ==
  /\ run.active /\ run.remaining # << >>
  /\ \E st0 \in {[w |-> World, remaining |-> Tail(run.remaining), attached |-> run.attached]} :
     \E st \in {runScript(st0, run.node, run.event, Script(Head(run.remaining)))} :
        /\ Commit(st.w)
        /\ run' = [run EXCEPT !.remaining = st.remaining, !.attached = st.attached,
                              !.calls = (@ + 1) % 2]
        /\ last' = [Call("visit", "-", run.event, Head(run.remaining), Undefined, << >>,
                         st.w.fault, Changed(st.w))
                      EXCEPT !.node = run.node]
  /\ UNCHANGED <<indexes, listenerRegistry, objects, handles, aliases, evt, views, domVars>>

\* ------------------------------------------------------------------ specification: delivery
ReHandlers == {"A", "G", "R", "S", "C", "D"}

NextReentrant ==
  \/ ~run.active /\ nodes("h1") = << >> /\ Construct("h1", [kind |-> "node", node |-> "e1"])
  \/ \E handler \in ReHandlers :
       /\ ~run.active /\ nodes("h1") # << >>
       /\ Len(HandlerSet("e1", "turned")) < MaxBucket
       /\ On("h1", "turned", handler)
  \/ \E handler \in ReHandlers \cup {NoHandler} :
       ~run.active /\ nodes("h1") # << >> /\ Off("h1", "turned", handler)
  \/ nodes("h1") # << >> /\ Begin("h1", "turned")
  \/ NativeBegin("e1", "turned")
  \/ Advance
  \/ Visit

\* The forEach of a dispatch in progress goes on: nothing suspends it.
SpecReentrant == Init /\ [][NextReentrant]_vars /\ WF_vars(Advance) /\ WF_vars(Visit)

\* C31: every trigger call and every native dispatch comes to an end when
\* each handler invocation does, also when handlers call on and off for
\* the name being delivered on the node they are called on.
C31_DispatchTerminates == run.active ~> ~run.active

\* C32: a handler removed by off(name, h) or by off(name) is not invoked
\* for that node until it is registered again, also when the off call is
\* made by a handler during a dispatch for the name: every handler a
\* dispatch invokes is a member of the node's handler set for the name at
\* the time of the invocation.
C32_Step ==
  last'.op = "visit" => last'.arg \in Range(HandlerSet(last'.node, last'.key))

C32_RemovedNotInvoked == [][C32_Step]_vars

\* The handlers a handler registers and removes when it is called.
Registers(handler) == {c.handler : c \in {c \in Range(Script(handler)) : c.op = "on"}}
Removes(handler) == {c.handler : c \in {c \in Range(Script(handler)) : c.op = "off"}}

\* Those it registers that are not members when it does: not registered
\* before, or removed by it first.
NewlyRegistered(handler, before) ==
  {g \in Registers(handler) : g \notin Range(before) \/ g \in Removes(handler)}

\* C33: a handler registered by a running handler for the name being
\* delivered, on the node it is delivered to, is put behind every handler
\* still to be invoked in that dispatch as long as the node's handler set
\* has not been emptied or cleared in the dispatch, and it stays there
\* until it is invoked or removed, the walk ending only when nothing is
\* left; once the set has been emptied or cleared, the handler goes into
\* the node's new handler set and the dispatch in progress does not reach it.
C33_Step ==
  /\ last'.op = "visit" =>
       LET handler == Head(run.remaining)
           before == HandlerSet(run.node, run.event)
       IN /\ \A g \in NewlyRegistered(handler, before) \ Range(Tail(run.remaining)) :
               IF run'.attached
               THEN /\ run'.remaining # << >>
                    /\ run'.remaining[Len(run'.remaining)] = g
                    /\ Times(run'.remaining, g) = 1
               ELSE /\ g \notin Range(run'.remaining)
                    /\ g \in Range(HandlerSetNext(run.node, run.event))
          /\ SelectSeq(run'.remaining, LAMBDA g : g \notin Registers(handler))
               = SelectSeq(Tail(run.remaining),
                           LAMBDA g : g \notin Registers(handler) /\
                                      (run.attached => g \notin Removes(handler)))
  /\ (run.active /\ last'.op \in {"next", "end"}) => run.remaining = << >>

C33_RegisteredDuringDispatch == [][C33_Step]_vars

\* R was invoked first of R and A and registered G: G is behind A in what
\* the dispatch still has to invoke, and last in the node's handler set.
C33_Witness ==
  /\ last.op = "visit" /\ last.arg = "R"
  /\ run.active /\ run.attached
  /\ run.remaining = <<"A", "G">>
  /\ HandlerSet("e1", "turned") = <<"R", "A", "G">>

\* ------------------------------------------------------------------ specification: no bubbling
\* Handles over one element, the other, or both; e2 may be put inside e1
\* and e1 inside e2.
BubbleSelectors ==
  {[kind |-> "node", node |-> "e1"], [kind |-> "node", node |-> "e2"],
   [kind |-> "array", nodes |-> <<"e1", "e2">>]}

NextBubble ==
  \/ \E sel \in BubbleSelectors : Construct("h1", sel)
  \/ \E handler \in Handlers :
       /\ \A n \in Range(nodes("h1")) : Len(HandlerSet(n, "turned")) < MaxBucket
       /\ On("h1", "turned", handler)
  \/ \E child \in Elements : AppendNode("h1", child)
  \/ Trigger("h1", "turned")

SpecBubble == Init /\ [][NextBubble]_vars

\* How many times a dispatch invoked handler h on node n, in any way, and
\* how many times the node is listed.
Deliveries(invoked, n, h) ==
  Cardinality({i \in DOMAIN invoked : invoked[i][1] = n /\ invoked[i][2] = h})
Listed(ns, n) == Cardinality({i \in DOMAIN ns : ns[i] = n})

\* C34: trigger(name) on a Handle invokes the handlers registered for the
\* name on the nodes the Handle lists, once for every listing of the node,
\* and nothing else: no handler of a parent, a child or any other node, no
\* native listener, and it installs or removes none.
C34_Step ==
  last'.op = "trigger" =>
    /\ \A i \in DOMAIN last'.invoked :
         /\ last'.invoked[i][1] \in Range(nodes(last'.slot))
         /\ last'.invoked[i][3] = "synthetic"
    /\ \A n \in Nodes : \A h \in Handlers :
         Deliveries(last'.invoked, n, h) =
           IF h \in Range(HandlerSet(n, last'.key)) THEN Listed(nodes(last'.slot), n) ELSE 0
    /\ UNCHANGED evVars

C34_NoBubbling == [][C34_Step]_vars

\* e2 is inside e1 and both have handlers for 'turned'; trigger on the
\* Handle over e2 invoked the handler of e2 once and nothing of e1.
C34_Witness ==
  /\ last.op = "trigger" /\ nodes("h1") = <<"e2">>
  /\ Parent("e2") = "e1"
  /\ HandlerSet("e1", "turned") = <<"A", "B">>
  /\ HandlerSet("e2", "turned") = <<"B">>
  /\ last.invoked = <<<<"e2", "B", "synthetic">>>>

\* ------------------------------------------------------------------ specification: positions
\* Handles that list a node once, twice, or next to another node.
PositionSelectors ==
  {[kind |-> "node", node |-> "e1"]}
    \cup {[kind |-> "array", nodes |-> a] : a \in {<<"e1", "e1">>, <<"e1", "e2">>, <<"e2", "e1">>}}
PositionHandlers == {"A", "F", "P"}

NextPositions ==
  \/ \E sel \in PositionSelectors : Construct("h1", sel)
  \/ \E handler \in PositionHandlers :
       /\ \A n \in Range(nodes("h1")) : Len(HandlerSet(n, "turned")) < MaxBucket
       /\ On("h1", "turned", handler)
  \/ \E handler \in PositionHandlers : Off("h1", "turned", handler)
  \/ \E data \in {Undefined, Num(3)} : TriggerWith("h1", Name("turned"), data)

SpecPositions == Init /\ [][NextPositions]_vars

\* The invocations a dispatch made at one position of the node list.
InvokedAt(invoked, pos) == SelectSeq(invoked, LAMBDA i : i.obj[2] = pos)

\* C35: trigger(name) with a name delivers position by position of the
\* Handle's node list, which is not deduplicated: at every position the
\* handlers registered on the node listed there are invoked, each once and
\* in order, so a node listed k times is delivered to k times; the event
\* object is made for the position, with target and currentTarget the node
\* and both flags clear when the first handler of the position is entered.
C35_Step ==
  (last'.op = "trigger" /\ last'.event.t = "string") =>
    /\ ~last'.fault
    /\ \A i \in DOMAIN last'.invoked : last'.invoked[i].obj[2] \in DOMAIN nodes(last'.slot)
    /\ \A pos \in DOMAIN nodes(last'.slot) :
         LET node == nodes(last'.slot)[pos]
             at == InvokedAt(last'.invoked, pos)
         IN /\ HandlersOn(at) = HandlerSet(node, last'.key)
            /\ \A k \in DOMAIN at :
                 /\ at[k].node = node
                 /\ at[k].obj = <<"created", pos>>
                 /\ at[k].target = Val(node) /\ at[k].currentTarget = Val(node)
            /\ at # << >> => ~at[1].isDefaultPrevented /\ ~at[1].isPropagationStopped

C35_DeliveryPerPosition == [][C35_Step]_vars

\* The Handle lists e1 twice and e1 has the handler that returns false:
\* it was invoked at both positions, each time with an event of its own
\* whose flags were clear.
C35_Witness ==
  /\ last.op = "trigger" /\ nodes("h1") = <<"e1", "e1">>
  /\ HandlerSet("e1", "turned") = <<"F", "A">>
  /\ HandlersOn(last.invoked) = <<"F", "A", "F", "A">>
  /\ last.invoked[2].isDefaultPrevented /\ ~last.invoked[3].isDefaultPrevented
  /\ last.invoked[3].obj = <<"created", 2>>

\* ------------------------------------------------------------------ specification: clones
NextClones ==
  \/ \E l \in InsertLists : Construct("h1", [kind |-> "array", nodes |-> l])
  \/ /\ \A n \in Range(nodes("h1")) : Len(HandlerSet(n, "turned")) < MaxBucket
     /\ On("h1", "turned", "A")
  \/ DataSet("h1", "k", "v1")
  \/ \E src \in InsertLists : AppendHandle("h1", src)
  \/ \E src \in InsertLists : PrependHandle("h1", src)
  \/ \E target \in InsertLists : AppendTo("h1", target)

SpecClones == Init /\ [][NextClones]_vars

\* The state the facade and the page hold for a child node. They hold it
\* by node: a node made by cloneNode or parsed from markup is a new node,
\* with no listener and no entry in the WeakMap.
listenersOf(dl, c) == IF c.t = "el" THEN dl[c.id] ELSE << >>
dataOn(ds, c, key) == IF c.t = "el" THEN Stored(ds, c.id, key) ELSE Undefined
handlersOf(ds, sets, c, ev) == IF c.t = "el" THEN HandlerSetOf(ds, sets, c.id, ev) ELSE << >>

\* The children an insertion put in: those a parent has more of than before.
Inserted(p) == {c \in Range(children'[p]) : Count(children'[p], c) > Count(children[p], c)}

\* C36: what append, prepend and appendTo insert for a Handle source has
\* no handler, no native listener and no data, whatever the source nodes
\* have, and the handlers and the data of the source nodes stay as they
\* are: a native event on an inserted node invokes nothing and data(key)
\* on it is undefined.
C36_Step ==
  ((last'.op \in {"append", "prepend"} /\ last'.key = "handle") \/ last'.op = "appendTo") =>
    /\ UNCHANGED <<evVars, views>>
    /\ \A p \in Containers : \A c \in Inserted(p) :
         /\ listenersOf(domListeners', c) = << >>
         /\ handlersOf(dataStore', bucketSets', c, "turned") = << >>
         /\ dataOn(dataStore', c, "k") = Undefined

C36_ClonesStartBare == [][C36_Step]_vars

\* e2 has a handler, its native bridge and a value under k; what append
\* put into e1 for the Handle over e2 is a clone, and e2 is where it was.
C36_Witness ==
  /\ last.op = "append" /\ last.key = "handle" /\ last.srcs = <<"e2">>
  /\ nodes("h1") = <<"e1">>
  /\ HandlerSet("e2", "turned") = <<"A">> /\ BridgeCount("e2", "turned") = 1
  /\ Stored(dataStore, "e2", "k") = Val("v1")
  /\ children["e1"] = <<Clone("e2")>>
  /\ Parent("e2") = "body"

\* ------------------------------------------------------------------ specification: prepend
\* The children an element may hold here: room for two clones.
MaxPrepended == 2
PrependLists == InsertLists \cup {<<"e2", "e1">>}

NextPrepend ==
  \/ \E l \in InsertLists : Construct("h1", [kind |-> "array", nodes |-> l])
  \/ \E src \in PrependLists : PrependWithin("h1", src, MaxPrepended)

SpecPrepend == Init /\ [][NextPrepend]_vars

ClonesOf(srcs) == [i \in DOMAIN srcs |-> Clone(srcs[i])]

\* C37: prepend with a Handle puts the clones of the Handle's elements at
\* the start of every target, before the children it had, in the order the
\* source Handle lists them: the clone of its first node is the target's
\* first child.
C37_Step ==
  (last'.op = "prepend" /\ last'.key = "handle") =>
    \A el \in Range(elements(last'.slot)) :
      children'[el] = ClonesOf(SelectSeq(last'.srcs, isElementLike)) \o children[el]

C37_PrependKeepsOrder == [][C37_Step]_vars

\* ------------------------------------------------------------------ specification: hide and show
NextToggle ==
  \/ \E l \in InsertLists : Construct("h1", [kind |-> "array", nodes |-> l])
  \/ \E value \in {"block", "flex"} : CssSet("h1", value)
  \/ Hide("h1")
  \/ Show("h1")

SpecToggle == Init /\ [][NextToggle]_vars

IsHide(call) == call.op = "css.set" /\ call.key = "display" /\ call.arg = "none"
IsShow(call) == call.op = "css.set" /\ call.key = "display" /\ call.arg = ""

\* C38: show() after hide() on a Handle gives every element the inline
\* display value it had before hide(), also a non-empty one; hide() after
\* hide() and show() after show() change nothing; none of them changes
\* anything but display.
C38_Step ==
  /\ (IsHide(last) /\ IsShow(last') /\ last'.slot = last.slot) =>
       \A e \in Range(elements(last'.slot)) : display'[e] = last.was[e]
  /\ ((IsHide(last) /\ IsHide(last')) \/ (IsShow(last) /\ IsShow(last')))
       /\ last'.slot = last.slot => display' = display
  /\ (IsHide(last') \/ IsShow(last')) => UNCHANGED <<children, attrs, classes>>

C38_HideShowRoundTrip == [][C38_Step]_vars

\* C39: every Handle mirrors its node list in its own integer keys: h[i]
\* is the node at index i for every i below h.length, and there is no
\* integer key from h.length on, also after remove().
C39_IndexMirror ==
  \A s \in Slots :
    /\ DOMAIN indexes[s] = 0..(Len(nodes(s)) - 1)
    /\ \A i \in DOMAIN indexes[s] : indexes[s][i] = nodes(s)[i + 1]

\* ------------------------------------------------------------------ specification: wrappers and raw calls
\* Two wrappers of one element (createTurn and useTurn), each with its own
\* registry; handlers are subscribed and unsubscribed through either, and
\* the element is also used directly: on, off(event), off(event, handler)
\* and trigger.
RegistryEvents == {"turned"}

NextRegistry ==
  \/ CreateTurn(<<"e1">>)
  \/ \E w \in Wrappers, ev \in RegistryEvents, h \in Handlers :
       /\ Len(HandlerSet("e1", ev)) < MaxBucket
       /\ TurnOn(w, ev, h)
  \/ \E w \in Wrappers, ev \in RegistryEvents, h \in Handlers : TurnOff(w, ev, h)
  \/ \E ev \in RegistryEvents :
       /\ nodes(TurnSlot) # << >>
       /\ Len(HandlerSet("e1", ev)) < MaxBucket
       /\ On(TurnSlot, ev, "A")
  \/ \E ev \in RegistryEvents, hd \in {"A", NoHandler} :
       nodes(TurnSlot) # << >> /\ Off(TurnSlot, ev, hd)
  \/ \E ev \in RegistryEvents : nodes(TurnSlot) # << >> /\ Trigger(TurnSlot, ev)

SpecRegistry == Init /\ [][NextRegistry]_vars

\* C40: whatever is called through the wrappers of an element and on the
\* element itself, a wrapper records a handler as subscribed for an event
\* exactly when its callback for the handler is in the element's handler
\* set for the event; so a handler is in the set when on(event, h) has
\* returned, and no wrapper's callback for h is left in the set when
\* off(event, h) has returned from any wrapper.
C40_Step ==
  /\ \A w \in Wrappers, ev \in RegistryEvents, h \in Handlers :
       subscribed(listenerRegistry'[w], ev, h) <=> ListeningNext(w, ev, h)
  /\ (last'.op = "turn.on" /\ ~last'.fault) =>
       ListeningNext(last'.w, last'.key, last'.arg)
  /\ (last'.op = "turn.off" /\ ~last'.fault) =>
       \A w \in Wrappers : ~ListeningNext(w, last'.key, last'.arg)

C40_RegistryMatchesHandlerSet == [][C40_Step]_vars

====
